---- MODULE Spec2Model ----
(***************************************************************************)
(* Frame relay and detection fan-out of the fastapiserver repository.     *)
(*                                                                         *)
(* Part 1 (SpecFrame): the shared frame queue, the capture callback that   *)
(* feeds it and GStreamerFrameProducer, the pull-style source the          *)
(* inference runtime polls with grab()/retrieve()/release().               *)
(*                                                                         *)
(* Part 2 (SpecWs): ConnectionManager on the asyncio event loop: the       *)
(* websocket endpoints (connect, receive loop, disconnect), the scheduled  *)
(* handle_ai_prediction units and the keepalive tasks, interleaved at      *)
(* their awaits.                                                           *)
(*                                                                         *)
(* Part 3: the payload handle_ai_prediction builds from a batch of raw     *)
(* predictions (SpecNormalize), the capture timestamp on its way to that   *)
(* payload (SpecRelay), AIProcessor.start()/stop() (SpecProcessor) and     *)
(* shutdown_event() (SpecShutdown).                                        *)
(***************************************************************************)
EXTENDS Integers, Sequences, FiniteSets, TLC

\* queue.Queue(maxsize=...) of app/main.py; the application uses 60, the
\* model a small capacity so that the full queue is reached.
maxsize == 3
\* number of capture callbacks the model runs
MaxPush == 5
MaxCleared == 4
\* number of items pushed into the video-service Pipeline
MaxItems == 4

\* Python's None for optional values: an optional is a sequence of length <= 1
None == <<>>
Some(x) == <<x>>

VARIABLES
    frame_queue,              \* the shared queue.Queue: frames, oldest first
    running,                  \* GStreamerFrameProducer.running
    frame_id_counter,         \* GStreamerFrameProducer.frame_id_counter
    last_read_video_frame,    \* the single-slot holder (optional VideoFrame)
    last_retrieved_frame_id,  \* cached metadata of the last retrieve()
    pushed,                   \* capture callbacks run so far; frame n is the n-th
    dropped,                  \* "Frame queue is full. Dropping frame" warnings logged
    dequeued,                 \* whether any get()/get_nowait() took a frame so far
    relPc,                    \* position of a release() call in its drain loop
    cleared_count,            \* release()'s local counter
    relPushed,                \* a push succeeded while release() was running
    relMark,                  \* the number of the newest frame pushed before release() was called
    calls                     \* the last two grab()/retrieve() calls with results

frameVars == <<frame_queue, running, frame_id_counter, last_read_video_frame,
               last_retrieved_frame_id, pushed, dropped, dequeued, relPc,
               cleared_count, relPushed, relMark, calls>>

VARIABLES
    active_connections,  \* the dict's entry array in insertion order; 0 marks a deleted entry
    ping_task,           \* ConnectionManager.ping_task: a task number, 0 for None
    is_running,          \* ConnectionManager.is_running
    pc,                  \* where each coroutine is suspended
    loc,                 \* each coroutine's locals
    must_cancel,         \* keepalive tasks with a CancelledError to be delivered
    inbox,               \* per client, the messages transmitted to it, in order
    broken,              \* clients whose transport is closed: a send to them raises
    tasks_created,       \* keepalive tasks created so far
    pings_sent,          \* keepalive rounds broadcast so far
    rep,                 \* per broadcaster, the record of its last broadcast pass
    echoes,              \* per client, the texts received from it so far
    serial               \* so far one manager call at a time, each run to completion
                         \* before the next one started, and no send failed

wsVars == <<active_connections, ping_task, is_running, pc, loc, must_cancel,
            inbox, broken, tasks_created, pings_sent, rep, echoes, serial>>

\* AIProcessor and the consumer thread that calls _on_prediction
VARIABLES
    main_event_loop,     \* "none" until start() captures the loop; "open"; "closed"
    scheduled,           \* the frames whose result was handed to the loop, in order
    predicted,           \* calls of _on_prediction so far; the next frame is predicted + 1
    last_outcome,        \* how the last call of _on_prediction ended
    raised               \* an exception left _on_prediction into the consumer thread

schedVars == <<main_event_loop, scheduled, predicted, last_outcome, raised>>

\* AIProcessor's lifecycle, the application's shutdown, and the data path of
\* one frame from the capture callback to the ai_detection payload
VARIABLES
    frame_producer,        \* AIProcessor.frame_producer: "none", "other" (not a
                           \* GStreamerFrameProducer) or "producer"
    model,                 \* whether AIProcessor.model and config are loaded
    processor_is_running,  \* AIProcessor.is_running
    inference_pipeline,    \* AIProcessor.inference_pipeline: "none", "created", "started"
    start_calls,           \* the calls of AIProcessor.start(), each with how it ended
    stopPc,                \* position of a call of AIProcessor.stop()
    stopped,               \* stop() went through its whole body and start() was not
                           \* called since
    shutdownPc,            \* position of main.shutdown_event()
    handled,               \* the unit handle_ai_prediction ran: its inputs and payload
    relayed,               \* the frame relayed: capture time, queue item, VideoFrame
                           \* timestamp, payload timestamp
    created,               \* how many GStreamerVideoSource and InferencePipeline
                           \* objects and keep-alive loop tasks start() created so far
    retrieved,             \* the frames retrieve() returned so far, each <<image, id>>
    last_stop              \* how the last call of AIProcessor.stop() ended, if
                           \* stop() was called since the last start()

\* one Pipeline of the video service with its SystemMonitor
VARIABLES
    input_queue,           \* Pipeline._input_queue, an unbounded asyncio.Queue
    output_queue,          \* Pipeline._output_queue, an unbounded asyncio.Queue
    pipeline_running,      \* Pipeline._running
    worker_pc,             \* the worker task: "none" before start(), "get" at
                           \* "await self._input_queue.get()", "process" inside
                           \* "await self.process_item(item)", "done" when it ended
    worker_item,           \* the item the worker took from the input queue
    processing_stats,      \* SystemMonitor._processing_stats: total_frames, error_count
    items                  \* the items pushed so far, in order

videoVars == <<input_queue, output_queue, pipeline_running, worker_pc, worker_item,
               processing_stats, items>>

histVars == <<created, retrieved, last_stop, videoVars>>

pipeVars == <<frame_producer, model, processor_is_running,
              inference_pipeline, start_calls, stopPc, stopped, shutdownPc,
              handled, relayed, histVars>>

vars == <<frameVars, wsVars, schedVars, pipeVars>>

----------------------------------------------------------------------------
\* queue.Queue primitives, each atomic under the queue's mutex

QueueFull(q) == Len(q) >= maxsize
QueueEmpty(q) == Len(q) = 0

\* put(item, block=False): raises queue.Full on a full queue, else appends
PutNowait_nocheck(q, item) == [full |-> FALSE, q |-> Append(q, item)]
PutNowait(q, item) ==
    IF QueueFull(q) THEN [full |-> TRUE, q |-> q]
    ELSE [full |-> FALSE, q |-> Append(q, item)]

\* get(timeout=1.0) / get_nowait(): raises queue.Empty on an empty queue
\* (after the bounded wait), else removes the oldest item
QueueGet(q) ==
    IF QueueEmpty(q) THEN [empty |-> TRUE, item |-> None, q |-> q]
    ELSE [empty |-> FALSE, item |-> Some(Head(q)), q |-> Tail(q)]

Remember(c) == IF Len(calls) < 2 THEN Append(calls, c) ELSE <<calls[2], c>>

----------------------------------------------------------------------------
FrameInit ==
    /\ frame_queue = <<>>
    /\ running = FALSE
    /\ frame_id_counter = 0
    /\ last_read_video_frame = None
    /\ last_retrieved_frame_id = None
    /\ pushed = 0
    /\ dropped = 0
    /\ dequeued = FALSE
    /\ relPc = "idle"
    /\ cleared_count = 0
    /\ relPushed = FALSE
    /\ relMark = 0
    /\ calls = <<>>

\* GStreamerFrameProducer.isOpened
IsOpened == running

\* GStreamerFrameProducer.start
Start ==
    /\ running' = TRUE
    /\ UNCHANGED <<frame_queue, frame_id_counter, last_read_video_frame,
                   last_retrieved_frame_id, pushed, dropped, dequeued, relPc,
                   cleared_count, relPushed, relMark, calls>>

\* The capture callback with the oldest frame evicted on a full queue.
OnNewSampleFromPush_evict ==
    /\ pushed < MaxPush
    /\ pushed' = pushed + 1
    /\ IF QueueFull(frame_queue)
       THEN /\ frame_queue' = Append(Tail(frame_queue), pushed + 1)
            /\ dropped' = dropped + 1
            /\ UNCHANGED relPushed
       ELSE /\ frame_queue' = Append(frame_queue, pushed + 1)
            /\ relPushed' = (relPushed \/ relPc # "idle")
            /\ UNCHANGED dropped
    /\ UNCHANGED <<running, frame_id_counter, last_read_video_frame,
                   last_retrieved_frame_id, dequeued, relPc, cleared_count, relMark, calls>>

\* The capture callback with a blocking put(): it waits while the queue is full.
OnNewSampleFromPush_block ==
    /\ pushed < MaxPush
    /\ ~QueueFull(frame_queue)
    /\ pushed' = pushed + 1
    /\ frame_queue' = Append(frame_queue, pushed + 1)
    /\ relPushed' = (relPushed \/ relPc # "idle")
    /\ UNCHANGED <<running, frame_id_counter, last_read_video_frame, dropped,
                   last_retrieved_frame_id, dequeued, relPc, cleared_count, relMark, calls>>

\* RtspServer._on_new_sample_from_push, the part that feeds the queue
OnNewSampleFromPush ==
    /\ pushed < MaxPush
    /\ pushed' = pushed + 1
    /\ LET r == PutNowait(frame_queue, pushed + 1) IN
       /\ frame_queue' = r.q
       /\ dropped' = IF r.full THEN dropped + 1 ELSE dropped
       /\ relPushed' = (relPushed \/ (~r.full /\ relPc # "idle"))
    /\ UNCHANGED <<running, frame_id_counter, last_read_video_frame,
                   last_retrieved_frame_id, dequeued, relPc, cleared_count, relMark, calls>>

\* on_new_sample_callback of gstreamer_utils, the part that feeds the queue:
\* full() is tested first; on a full queue get_nowait() takes the oldest
\* frame out and the new one is put in its place
OnNewSampleCallback ==
    /\ pushed < MaxPush
    /\ pushed' = pushed + 1
    /\ IF ~QueueFull(frame_queue)
       THEN /\ frame_queue' = PutNowait(frame_queue, pushed + 1).q
            /\ relPushed' = (relPushed \/ relPc # "idle")
            /\ UNCHANGED dropped
       ELSE LET g == QueueGet(frame_queue) IN
            /\ frame_queue' = IF g.empty THEN g.q ELSE PutNowait(g.q, pushed + 1).q
            /\ dropped' = dropped + 1
            /\ relPushed' = (relPushed \/ (~g.empty /\ relPc # "idle"))
    /\ UNCHANGED <<running, frame_id_counter, last_read_video_frame,
                   last_retrieved_frame_id, dequeued, relPc, cleared_count, relMark, calls>>

\* read_frame() without the test of running
ReadFrame_unguarded ==
    LET g == QueueGet(frame_queue) IN
    IF g.empty
    THEN [vf |-> None, q |-> g.q, ctr |-> frame_id_counter, got |-> FALSE]
    ELSE [vf |-> Some([image |-> g.item[1], frame_id |-> frame_id_counter + 1]),
          q |-> g.q, ctr |-> frame_id_counter + 1, got |-> TRUE]

\* read_frame() that numbers the frame without advancing the counter
ReadFrame_stale ==
    IF ~running THEN [vf |-> None, q |-> frame_queue, ctr |-> frame_id_counter, got |-> FALSE]
    ELSE LET g == QueueGet(frame_queue) IN
         IF g.empty
         THEN [vf |-> None, q |-> g.q, ctr |-> frame_id_counter, got |-> FALSE]
         ELSE [vf |-> Some([image |-> g.item[1], frame_id |-> frame_id_counter + 1]),
               q |-> g.q, ctr |-> frame_id_counter, got |-> TRUE]

\* GStreamerFrameProducer.read_frame: the optional VideoFrame it returns and
\* the queue and counter it leaves
ReadFrame ==
    IF ~running THEN [vf |-> None, q |-> frame_queue, ctr |-> frame_id_counter, got |-> FALSE]
    ELSE LET g == QueueGet(frame_queue) IN
         IF g.empty
         THEN [vf |-> None, q |-> g.q, ctr |-> frame_id_counter, got |-> FALSE]
         ELSE [vf |-> Some([image |-> g.item[1], frame_id |-> frame_id_counter + 1]),
               q |-> g.q, ctr |-> frame_id_counter + 1, got |-> TRUE]

\* a direct read_frame() call of the consumer
ReadFrameCall ==
    /\ LET r == ReadFrame IN
       /\ frame_queue' = r.q
       /\ frame_id_counter' = r.ctr
       /\ dequeued' = (dequeued \/ r.got)
    /\ UNCHANGED <<running, last_read_video_frame, last_retrieved_frame_id,
                   pushed, dropped, relPc, cleared_count, relPushed, relMark, calls>>

\* grab() that keeps the held frame when read_frame() returns None
Grab_keep ==
    /\ IF ~running
       THEN /\ calls' = Remember([op |-> "grab", ok |-> FALSE, img |-> None])
            /\ UNCHANGED <<frame_queue, frame_id_counter, last_read_video_frame, dequeued>>
       ELSE LET r == ReadFrame IN
            /\ frame_queue' = r.q
            /\ frame_id_counter' = r.ctr
            /\ dequeued' = (dequeued \/ r.got)
            /\ last_read_video_frame' = IF r.vf # None THEN r.vf ELSE last_read_video_frame
            /\ calls' = Remember([op |-> "grab", ok |-> r.vf # None,
                                  img |-> IF r.vf # None THEN Some(r.vf[1].image) ELSE None])
    /\ UNCHANGED <<running, last_retrieved_frame_id, pushed, dropped, relPc,
                   cleared_count, relPushed, relMark>>

\* grab() over a get() without timeout: it waits as long as the queue is empty
Grab_block ==
    /\ running => frame_queue # <<>>
    /\ IF ~running
       THEN /\ calls' = Remember([op |-> "grab", ok |-> FALSE, img |-> None])
            /\ UNCHANGED <<frame_queue, frame_id_counter, last_read_video_frame, dequeued>>
       ELSE LET r == ReadFrame IN
            /\ frame_queue' = r.q
            /\ frame_id_counter' = r.ctr
            /\ dequeued' = (dequeued \/ r.got)
            /\ last_read_video_frame' = r.vf
            /\ calls' = Remember([op |-> "grab", ok |-> r.vf # None,
                                  img |-> IF r.vf # None THEN Some(r.vf[1].image) ELSE None])
    /\ UNCHANGED <<running, last_retrieved_frame_id, pushed, dropped, relPc,
                   cleared_count, relPushed, relMark>>

\* GStreamerFrameProducer.grab
Grab ==
    /\ IF ~running
       THEN /\ calls' = Remember([op |-> "grab", ok |-> FALSE, img |-> None])
            /\ UNCHANGED <<frame_queue, frame_id_counter, last_read_video_frame, dequeued>>
       ELSE LET r == ReadFrame IN
            /\ frame_queue' = r.q
            /\ frame_id_counter' = r.ctr
            /\ dequeued' = (dequeued \/ r.got)
            /\ last_read_video_frame' = r.vf
            /\ calls' = Remember([op |-> "grab", ok |-> r.vf # None,
                                  img |-> IF r.vf # None THEN Some(r.vf[1].image) ELSE None])
    /\ UNCHANGED <<running, last_retrieved_frame_id, pushed, dropped, relPc,
                   cleared_count, relPushed, relMark>>

\* retrieve() that leaves the frame in the holder
Retrieve_keep ==
    /\ IF last_read_video_frame # None
       THEN /\ last_retrieved_frame_id' = Some(last_read_video_frame[1].frame_id)
            /\ calls' = Remember([op |-> "retrieve", ok |-> TRUE,
                                  img |-> Some(last_read_video_frame[1].image)])
       ELSE /\ calls' = Remember([op |-> "retrieve", ok |-> FALSE, img |-> None])
            /\ UNCHANGED last_retrieved_frame_id
    /\ UNCHANGED <<frame_queue, running, frame_id_counter, last_read_video_frame,
                   pushed, dropped, dequeued, relPc, cleared_count, relPushed, relMark>>

\* GStreamerFrameProducer.retrieve
Retrieve ==
    /\ IF last_read_video_frame # None
       THEN /\ last_retrieved_frame_id' = Some(last_read_video_frame[1].frame_id)
            /\ last_read_video_frame' = None
            /\ calls' = Remember([op |-> "retrieve", ok |-> TRUE,
                                  img |-> Some(last_read_video_frame[1].image)])
       ELSE /\ calls' = Remember([op |-> "retrieve", ok |-> FALSE, img |-> None])
            /\ UNCHANGED <<last_read_video_frame, last_retrieved_frame_id>>
    /\ UNCHANGED <<frame_queue, running, frame_id_counter, pushed, dropped,
                   dequeued, relPc, cleared_count, relPushed, relMark>>

\* release() with "self.running = False" in effect
ReleaseCall_stop ==
    /\ relPc = "idle"
    /\ relPc' = "test"
    /\ cleared_count' = 0
    /\ relPushed' = FALSE
    /\ relMark' = pushed
    /\ running' = FALSE
    /\ UNCHANGED <<frame_queue, frame_id_counter, last_read_video_frame,
                   last_retrieved_frame_id, pushed, dropped, dequeued, calls>>

\* release() that resets the producer: holder emptied, counter back to 0
ReleaseCall_reset ==
    /\ relPc = "idle"
    /\ relPc' = "test"
    /\ cleared_count' = 0
    /\ relPushed' = FALSE
    /\ relMark' = pushed
    /\ last_read_video_frame' = None
    /\ frame_id_counter' = 0
    /\ UNCHANGED <<frame_queue, running, last_retrieved_frame_id, pushed, dropped,
                   dequeued, calls>>

\* GStreamerFrameProducer.release, entry: running is kept, the count reset
ReleaseCall ==
    /\ relPc = "idle"
    /\ relPc' = "test"
    /\ cleared_count' = 0
    /\ relPushed' = FALSE
    /\ relMark' = pushed
    /\ UNCHANGED <<frame_queue, running, frame_id_counter, last_read_video_frame,
                   last_retrieved_frame_id, pushed, dropped, dequeued, calls>>

\* release(), the loop test "while not self.frame_queue.empty()"
ReleaseTest ==
    /\ relPc = "test"
    /\ relPc' = IF QueueEmpty(frame_queue) THEN "exit" ELSE "get"
    /\ UNCHANGED <<frame_queue, running, frame_id_counter, last_read_video_frame,
                   last_retrieved_frame_id, pushed, dropped, dequeued,
                   cleared_count, relPushed, relMark, calls>>

\* release(), the loop body: get_nowait(), break on queue.Empty
ReleaseGet ==
    /\ relPc = "get"
    /\ LET g == QueueGet(frame_queue) IN
       /\ frame_queue' = g.q
       /\ relPc' = IF g.empty THEN "exit" ELSE "test"
       /\ cleared_count' = IF g.empty THEN cleared_count ELSE cleared_count + 1
       /\ dequeued' = (dequeued \/ ~g.empty)
    /\ UNCHANGED <<running, frame_id_counter, last_read_video_frame,
                   last_retrieved_frame_id, pushed, dropped, relPushed, relMark, calls>>

\* release(), after the loop: the final log line, then the return
ReleaseReturn ==
    /\ relPc = "exit"
    /\ relPc' = "idle"
    /\ UNCHANGED <<frame_queue, running, frame_id_counter, last_read_video_frame,
                   last_retrieved_frame_id, pushed, dropped, dequeued,
                   cleared_count, relPushed, relMark, calls>>

NextFrame ==
    \/ Start /\ UNCHANGED <<wsVars, schedVars, pipeVars>>
    \/ OnNewSampleFromPush /\ UNCHANGED <<wsVars, schedVars, pipeVars>>
    \/ ReadFrameCall /\ UNCHANGED <<wsVars, schedVars, pipeVars>>
    \/ Grab /\ UNCHANGED <<wsVars, schedVars, pipeVars>>
    \/ Retrieve /\ UNCHANGED <<wsVars, schedVars, pipeVars>>
    \/ ReleaseCall /\ UNCHANGED <<wsVars, schedVars, pipeVars>>
    \/ ReleaseTest /\ UNCHANGED <<wsVars, schedVars, pipeVars>>
    \/ ReleaseGet /\ UNCHANGED <<wsVars, schedVars, pipeVars>>
    \/ ReleaseReturn /\ UNCHANGED <<wsVars, schedVars, pipeVars>>

\* The consumer polls a started source: the source is started, the capture
\* thread pushes, the consumer calls grab() on the started source and
\* retrieve(); release() is not called.
NextConsume ==
    \/ Start /\ UNCHANGED <<wsVars, schedVars, pipeVars>>
    \/ OnNewSampleFromPush /\ UNCHANGED <<wsVars, schedVars, pipeVars>>
    \/ running /\ Grab /\ UNCHANGED <<wsVars, schedVars, pipeVars>>
    \/ Retrieve /\ UNCHANGED <<wsVars, schedVars, pipeVars>>

\* The producer fed by the appsink helper: the frames come in through
\* on_new_sample_callback, the consumer calls grab() and retrieve().
NextAppsink ==
    \/ Start /\ UNCHANGED <<wsVars, schedVars, pipeVars>>
    \/ OnNewSampleCallback /\ UNCHANGED <<wsVars, schedVars, pipeVars>>
    \/ Grab /\ UNCHANGED <<wsVars, schedVars, pipeVars>>
    \/ Retrieve /\ UNCHANGED <<wsVars, schedVars, pipeVars>>

\* the consumer calls retrieve() and get_frame_id() and keeps what it got:
\* the image retrieve() returned and the id of the last retrieved frame
RetrieveLogged ==
    /\ Retrieve
    /\ LET ret == calls'[Len(calls')] IN
       retrieved' = IF ret.ok
                    THEN Append(retrieved, <<ret.img[1], last_retrieved_frame_id'[1]>>)
                    ELSE retrieved
    /\ UNCHANGED <<wsVars, schedVars, frame_producer, model, processor_is_running,
                   inference_pipeline, start_calls, stopPc, stopped, shutdownPc,
                   handled, relayed, created, last_stop, videoVars>>

\* The frames on their way to the consumer: pushes of the capture thread,
\* grab() and retrieve() of the consumer, release() step by step beside
\* them.
NextOrder ==
    \/ Start /\ UNCHANGED <<wsVars, schedVars, pipeVars>>
    \/ OnNewSampleFromPush /\ UNCHANGED <<wsVars, schedVars, pipeVars>>
    \/ Grab /\ UNCHANGED <<wsVars, schedVars, pipeVars>>
    \/ RetrieveLogged
    \/ ReleaseCall /\ UNCHANGED <<wsVars, schedVars, pipeVars>>
    \/ ReleaseTest /\ UNCHANGED <<wsVars, schedVars, pipeVars>>
    \/ ReleaseGet /\ UNCHANGED <<wsVars, schedVars, pipeVars>>
    \/ ReleaseReturn /\ UNCHANGED <<wsVars, schedVars, pipeVars>>

\* The capture callback of a stream that does not end: the frames are not
\* numbered or counted, each is put as frame 0, and the callback can be
\* invoked any number of times.
OnNewSampleFromPushStream ==
    /\ LET r == PutNowait(frame_queue, 0) IN
       /\ frame_queue' = r.q
       /\ relPushed' = (relPushed \/ (~r.full /\ relPc # "idle"))
    /\ UNCHANGED <<running, frame_id_counter, last_read_video_frame, pushed, dropped,
                   last_retrieved_frame_id, dequeued, relPc, cleared_count, relMark, calls>>

\* release(), the loop body, its cleared_count kept up to MaxCleared
ReleaseGetStream ==
    /\ relPc = "get"
    /\ LET g == QueueGet(frame_queue) IN
       /\ frame_queue' = g.q
       /\ relPc' = IF g.empty THEN "exit" ELSE "test"
       /\ cleared_count' = IF g.empty \/ cleared_count >= MaxCleared THEN cleared_count
                           ELSE cleared_count + 1
       /\ dequeued' = (dequeued \/ ~g.empty)
    /\ UNCHANGED <<running, frame_id_counter, last_read_video_frame,
                   last_retrieved_frame_id, pushed, dropped, relPushed, relMark, calls>>

\* the steps of the thread that is inside release()
ReleaseRuns ==
    \/ ReleaseTest /\ UNCHANGED <<wsVars, schedVars, pipeVars>>
    \/ ReleaseGetStream /\ UNCHANGED <<wsVars, schedVars, pipeVars>>
    \/ ReleaseReturn /\ UNCHANGED <<wsVars, schedVars, pipeVars>>

\* release() beside the capture thread of an endless stream, and a
\* consumer that grabs
NextDrain ==
    \/ Start /\ UNCHANGED <<wsVars, schedVars, pipeVars>>
    \/ OnNewSampleFromPushStream /\ UNCHANGED <<wsVars, schedVars, pipeVars>>
    \/ Grab /\ frame_id_counter < MaxPush /\ UNCHANGED <<wsVars, schedVars, pipeVars>>
    \/ ReleaseCall /\ UNCHANGED <<wsVars, schedVars, pipeVars>>
    \/ ReleaseRuns

----------------------------------------------------------------------------
\* Part 2: ConnectionManager and the coroutines that use it

\* websocket clients that connect (each with a fresh uuid as client_id)
MaxClients == 3
\* handle_ai_prediction units scheduled by AIProcessor._on_prediction
MaxUnits == 2
\* keepalive tasks the model lets connect() create
MaxPingTasks == 2
\* keepalive rounds the model lets the keepalive tasks broadcast
MaxPings == 1
\* texts the model lets the clients send to their endpoints
MaxEchoes == 3

Clients == 1..MaxClients
Endpoint(c) == <<"endpoint", c>>
Unit(u) == <<"unit", u>>
PingTask(t) == <<"ping", t>>
Endpoints == {Endpoint(c) : c \in Clients}
Units == {Unit(u) : u \in 1..MaxUnits}
PingTasks == {PingTask(t) : t \in 1..MaxPingTasks}
Broadcasters == Units \cup PingTasks
Procs == Endpoints \cup Broadcasters
IsPing(p) == p[1] = "ping"

\* the three server-to-client messages
WelcomeMessage_anon(c) ==
    [type |-> "connection_status", frame_id |-> 0, error |-> FALSE, client_id |-> 0]
WelcomeMessage(c) ==
    [type |-> "connection_status", frame_id |-> 0, error |-> FALSE, client_id |-> c]
AiDetection(f, err) ==
    [type |-> "ai_detection", frame_id |-> f, error |-> err, client_id |-> 0]
EchoMessage ==
    [type |-> "echo", frame_id |-> 0, error |-> FALSE, client_id |-> 0]
PingMessage ==
    [type |-> "ping", frame_id |-> 0, error |-> FALSE, client_id |-> 0]

\* The dict active_connections: an insertion-ordered entry array. del leaves
\* a dummy entry behind, a new key is appended. (The array is compacted only
\* by a resize, which a dict of this size never needs.)
Keys(es) == {es[i] : i \in 1..Len(es)} \ {0}
DictLen(es) == Cardinality(Keys(es))
DictSet(es, c) == IF c \in Keys(es) THEN es ELSE Append(es, c)
DictDel_any(es, c) ==
    LET live == {i \in 1..Len(es) : es[i] # 0}
        hit == IF c \in Keys(es) THEN {i \in live : es[i] = c}
               ELSE {i \in live : \A j \in live : i <= j}
    IN [i \in 1..Len(es) |-> IF i \in hit THEN 0 ELSE es[i]]
DictDel(es, c) == [i \in 1..Len(es) |-> IF es[i] = c THEN 0 ELSE es[i]]

\* iter(d.items()): the size seen at creation, the next position, the
\* number of items still expected
NewIter(es) == [used |-> DictLen(es), pos |-> 1, len |-> DictLen(es)]

NoLocals ==
    [it |-> [used |-> 0, pos |-> 1, len |-> 0], cur |-> 0, failed |-> <<>>,
     k |-> 0, wait |-> 0, cont |-> "", msg |-> PingMessage]

\* what is recorded about a broadcaster's last pass with a regular message
NoReport ==
    [snap |-> {}, ok |-> <<>>, failed |-> <<>>, end |-> "idle", reg |-> {},
     disturb |-> {}]

\* the event loop's state as one record, for the run-to-next-await functions
Cur ==
    [ac |-> active_connections, ping_task |-> ping_task, is_running |-> is_running,
     pc |-> pc, loc |-> loc, must_cancel |-> must_cancel, inbox |-> inbox,
     tasks_created |-> tasks_created, pings_sent |-> pings_sent, rep |-> rep,
     echoes |-> echoes,
     failedSend |-> FALSE, ovf |-> FALSE]

TaskDone(S, t) == S.pc[PingTask(t)] = "done"

\* Task.cancel(): no-op on a finished task; forwarded to the task being
\* awaited; otherwise a CancelledError is thrown in at the next resume
RECURSIVE Cancel(_, _)
Cancel(S, t) ==
    LET p == PingTask(t) IN
    IF TaskDone(S, t) THEN S
    ELSE IF S.pc[p] = "await_ping" /\ ~TaskDone(S, S.loc[p].wait)
         THEN Cancel(S, S.loc[p].wait)
         ELSE [S EXCEPT !.must_cancel[t] = TRUE]

\* the end of a pass is recorded: how it ended, who was registered then
EndPass(S, p, how) ==
    [S EXCEPT !.rep[p] = IF @.end = "pass"
                         THEN [@ EXCEPT !.end = how, !.reg = Keys(S.ac),
                                        !.failed = S.loc[p].failed]
                         ELSE @]

\* _ping_clients returns: the task is finished
PingDone(S, p) ==
    [S EXCEPT !.pc[p] = "done", !.loc[p] = NoLocals, !.must_cancel[p[2]] = FALSE]

\* connect(), lines 49-52: start the keepalive task if none is recorded;
\* then the endpoint enters its receive loop
PingCheck_always(S, p) ==
    LET S1 == [S EXCEPT !.pc[p] = "recv", !.loc[p] = NoLocals] IN
    IF S.tasks_created >= MaxPingTasks THEN [S1 EXCEPT !.ovf = TRUE]
    ELSE [S1 EXCEPT !.is_running = TRUE,
                    !.ping_task = S.tasks_created + 1,
                    !.tasks_created = @ + 1,
                    !.pc[PingTask(S.tasks_created + 1)] = "ready"]

PingCheck(S, p) ==
    LET S1 == [S EXCEPT !.pc[p] = "recv", !.loc[p] = NoLocals] IN
    IF ~S.is_running /\ S.ping_task = 0
    THEN IF S.tasks_created >= MaxPingTasks THEN [S1 EXCEPT !.ovf = TRUE]
         ELSE [S1 EXCEPT !.is_running = TRUE,
                         !.ping_task = S.tasks_created + 1,
                         !.tasks_created = @ + 1,
                         !.pc[PingTask(S.tasks_created + 1)] = "ready"]
    ELSE S1

RECURSIVE Disconnect(_, _, _, _)
RECURSIVE AfterDisconnect(_, _)
RECURSIVE Cleanup(_, _)
RECURSIVE Iterate(_, _)
RECURSIVE BroadcastStart(_, _, _)
RECURSIVE Raise(_, _)

\* broadcast() returns to its caller: the unit is finished, the keepalive
\* task goes to sleep
BroadcastReturn(S, p) ==
    LET S1 == EndPass(S, p, "returned") IN
    [S1 EXCEPT !.pc[p] = IF IsPing(p) THEN "sleep" ELSE "done",
               !.loc[p] = NoLocals]

\* an exception leaves broadcast(): _ping_clients logs it and gives up the
\* keepalive; handle_ai_prediction broadcasts an error result instead, and
\* only logs when that broadcast raises too
Raise(S, p) ==
    LET S1 == EndPass(S, p, "aborted") IN
    IF IsPing(p)
    THEN PingDone([S1 EXCEPT !.is_running = FALSE, !.ping_task = 0], p)
    ELSE IF ~S.loc[p].msg.error
         THEN BroadcastStart(S1, p, AiDetection(p[2], TRUE))
         ELSE [S1 EXCEPT !.pc[p] = "done", !.loc[p] = NoLocals]

\* the for loop of broadcast() asks the dict iterator for the next item
Iterate_snapshot(S, p) ==
    LET l == S.loc[p]
        live == {i \in l.it.pos..Len(S.ac) : S.ac[i] # 0}
    IN IF live = {} \/ l.it.len = 0 THEN Cleanup([S EXCEPT !.loc[p].k = 1], p)
       ELSE LET i == CHOOSE j \in live : \A m \in live : j <= m IN
            [S EXCEPT !.pc[p] = "send",
                      !.loc[p].cur = S.ac[i],
                      !.loc[p].it = [used |-> l.it.used, pos |-> i + 1,
                                     len |-> l.it.len - 1]]

Iterate(S, p) ==
    LET l == S.loc[p]
        live == {i \in l.it.pos..Len(S.ac) : S.ac[i] # 0}
    IN IF l.it.used # DictLen(S.ac) THEN Raise(S, p)
       ELSE IF live = {} THEN Cleanup([S EXCEPT !.loc[p].k = 1], p)
       ELSE IF l.it.len = 0 THEN Raise(S, p)
       ELSE LET i == CHOOSE j \in live : \A m \in live : j <= m IN
            [S EXCEPT !.pc[p] = "send",
                      !.loc[p].cur = S.ac[i],
                      !.loc[p].it = [used |-> l.it.used, pos |-> i + 1,
                                     len |-> l.it.len - 1]]

\* broadcast(): the empty list of failed clients, the iterator, first item
BroadcastStart(S, p, msg) ==
    LET S1 == [S EXCEPT !.loc[p] = [NoLocals EXCEPT !.it = NewIter(S.ac), !.msg = msg],
                        !.rep[p] = IF msg.error THEN @
                                   ELSE [NoReport EXCEPT !.snap = Keys(S.ac),
                                                         !.end = "pass"]]
    IN Iterate(S1, p)

\* broadcast(), lines 114-116: disconnect the clients whose send failed
Cleanup(S, p) ==
    LET l == S.loc[p] IN
    IF l.k > Len(l.failed) THEN BroadcastReturn(S, p)
    ELSE Disconnect(S, p, l.failed[l.k], "cleanup")

\* disconnect() has returned to the code that called it
AfterDisconnect(S, p) ==
    LET cont == S.loc[p].cont IN
    IF cont = "closed" THEN [S EXCEPT !.pc[p] = "closed", !.loc[p] = NoLocals]
    ELSE IF cont = "recv" THEN [S EXCEPT !.pc[p] = "recv", !.loc[p] = NoLocals]
    ELSE IF cont = "pingcheck" THEN PingCheck(S, p)
    ELSE Cleanup([S EXCEPT !.loc[p].k = @ + 1, !.loc[p].wait = 0,
                           !.loc[p].cont = ""], p)

\* disconnect(c) called by coroutine p, up to its return or to its await of
\* the cancelled keepalive task
Disconnect(S, p, c, cont) ==
    LET S1 == [S EXCEPT !.ac = DictDel(@, c), !.loc[p].cont = cont] IN
    IF Keys(S1.ac) = {} /\ S1.ping_task # 0 /\ S1.is_running
    THEN LET t == S1.ping_task
             S2 == Cancel([S1 EXCEPT !.is_running = FALSE], t)
         IN IF p = PingTask(t)
            THEN [S2 EXCEPT !.pc[p] = "self_await"]
            ELSE IF TaskDone(S2, t)
                 THEN AfterDisconnect([S2 EXCEPT !.ping_task = 0], p)
                 ELSE [S2 EXCEPT !.pc[p] = "await_ping", !.loc[p].wait = t]
    ELSE AfterDisconnect(S1, p)

\* a send of broadcast() completes: delivered, or an exception
ResumeSend_nocatch(S, p, fail) ==
    LET l == S.loc[p]
        c == l.cur
    IN IF IsPing(p) /\ S.must_cancel[p[2]]
       THEN PingDone(EndPass(S, p, "aborted"), p)
       ELSE IF fail
            THEN Raise([S EXCEPT !.loc[p].failed = Append(@, c), !.loc[p].cur = 0,
                                 !.failedSend = TRUE], p)
            ELSE Iterate([S EXCEPT !.inbox[c] = Append(@, l.msg),
                                   !.loc[p].cur = 0,
                                   !.rep[p].ok = IF l.msg.error THEN @ ELSE Append(@, c)], p)

ResumeSend(S, p, fail) ==
    LET l == S.loc[p]
        c == l.cur
    IN IF IsPing(p) /\ S.must_cancel[p[2]]
       THEN PingDone(EndPass(S, p, "aborted"), p)
       ELSE IF fail
            THEN Iterate([S EXCEPT !.loc[p].failed = Append(@, c), !.loc[p].cur = 0,
                                   !.failedSend = TRUE], p)
            ELSE Iterate([S EXCEPT !.inbox[c] = Append(@, l.msg),
                                   !.loc[p].cur = 0,
                                   !.rep[p].ok = IF l.msg.error THEN @ ELSE Append(@, c)], p)

\* "await self.ping_task" of disconnect() completes: the awaited task is
\* finished (a CancelledError is caught), ping_task is cleared
ResumeAwait(S, p) ==
    LET S1 == IF IsPing(p) THEN [S EXCEPT !.must_cancel[p[2]] = FALSE] ELSE S IN
    AfterDisconnect([S1 EXCEPT !.ping_task = 0], p)

\* the keepalive task awaited itself in disconnect(): the pending
\* CancelledError is thrown in and caught there; without one the
\* RuntimeError "Task cannot await on itself" reaches _ping_clients
ResumeSelfAwait(S, p) ==
    IF S.must_cancel[p[2]]
    THEN AfterDisconnect([S EXCEPT !.must_cancel[p[2]] = FALSE, !.ping_task = 0], p)
    ELSE PingDone(EndPass([S EXCEPT !.is_running = FALSE, !.ping_task = 0],
                          p, "aborted"), p)

\* _ping_clients, the loop: "while self.is_running", ping if anyone is
\* registered, sleep
PingLoop(S, p) ==
    IF ~S.is_running THEN PingDone(S, p)
    ELSE IF Keys(S.ac) # {}
         THEN IF S.pings_sent >= MaxPings THEN [S EXCEPT !.ovf = TRUE]
              ELSE BroadcastStart([S EXCEPT !.pings_sent = @ + 1], p, PingMessage)
         ELSE [S EXCEPT !.pc[p] = "sleep"]

\* the keepalive task is resumed, at its start or from its sleep
PingStep(S, p) ==
    IF S.must_cancel[p[2]] THEN PingDone(S, p) ELSE PingLoop(S, p)

\* websocket.accept() completes: the client is registered and the welcome
\* message is being sent; if accept() raised, the endpoint's finally clause
\* calls disconnect()
AcceptDone(S, c, fail) ==
    IF fail THEN Disconnect(S, Endpoint(c), c, "closed")
    ELSE [S EXCEPT !.ac = DictSet(@, c), !.pc[Endpoint(c)] = "welcome"]

\* the welcome send of send_personal_message completes; on failure the
\* client is disconnected; connect() then goes on to its keepalive check
WelcomeDone(S, c, fail) ==
    IF fail
    THEN Disconnect([S EXCEPT !.failedSend = TRUE], Endpoint(c), c, "pingcheck")
    ELSE PingCheck([S EXCEPT !.inbox[c] = Append(@, WelcomeMessage(c))], Endpoint(c))

\* the endpoint has received a text and calls send_personal_message() to
\* echo it: nothing happens for a client that is not registered
SendPersonal(S, c) ==
    LET S1 == [S EXCEPT !.echoes[c] = @ + 1]
        total == Cardinality({x \in Clients \X (1..MaxEchoes) : x[2] <= S.echoes[x[1]]})
    IN
    IF total >= MaxEchoes THEN [S EXCEPT !.ovf = TRUE]
    ELSE IF c \in Keys(S.ac) THEN [S1 EXCEPT !.pc[Endpoint(c)] = "echo"]
    ELSE S1

\* the send of send_personal_message() completes: delivered, or the client
\* is disconnected; the endpoint goes back to its receive loop
EchoDone_keep(S, c, fail) ==
    IF fail
    THEN [S EXCEPT !.failedSend = TRUE, !.pc[Endpoint(c)] = "recv"]
    ELSE [S EXCEPT !.inbox[c] = Append(@, EchoMessage), !.pc[Endpoint(c)] = "recv"]

EchoDone(S, c, fail) ==
    IF fail
    THEN Disconnect([S EXCEPT !.failedSend = TRUE], Endpoint(c), c, "recv")
    ELSE [S EXCEPT !.inbox[c] = Append(@, EchoMessage), !.pc[Endpoint(c)] = "recv"]

\* the manager calls in progress: coroutines suspended inside connect(),
\* disconnect(), send_personal_message() or broadcast()
InCall(S) ==
    {p \in Procs : S.pc[p] \in {"welcome", "echo", "send", "await_ping", "self_await"}}

\* A send to (or an accept of) client c succeeds or raises; once the
\* transport of c has failed it is closed, and every later send raises.
Outcomes(c) == IF c \in broken THEN {TRUE} ELSE {TRUE, FALSE}

\* the step of coroutine q that leaves the loop in state r
Install(q, r) ==
    /\ ~r.ovf
    /\ active_connections' = r.ac
    /\ ping_task' = r.ping_task
    /\ is_running' = r.is_running
    /\ pc' = r.pc
    /\ loc' = r.loc
    /\ must_cancel' = r.must_cancel
    /\ inbox' = r.inbox
    /\ tasks_created' = r.tasks_created
    /\ pings_sent' = r.pings_sent
    /\ echoes' = r.echoes
    /\ rep' = [p \in Broadcasters |->
                IF p # q /\ r.rep[p].end = "pass" /\ r.ac # active_connections
                THEN [r.rep[p] EXCEPT !.disturb = @ \cup
                        {IF Keys(r.ac) \ Keys(active_connections) # {} THEN "connect"
                         ELSE IF q \in Endpoints THEN "endpoint" ELSE "broadcast"}]
                ELSE r.rep[p]]
    /\ serial' = (/\ serial
                   /\ ~r.failedSend
                   /\ Cardinality(InCall(r)) <= 1
                   /\ (r.ac # active_connections => InCall(Cur) \ {q} = {}))
    /\ UNCHANGED <<frameVars, schedVars, pipeVars>>

WsInit ==
    /\ active_connections = <<>>
    /\ ping_task = 0
    /\ is_running = FALSE
    /\ pc = [p \in Procs |-> IF IsPing(p) THEN "unborn" ELSE "new"]
    /\ loc = [p \in Procs |-> NoLocals]
    /\ must_cancel = [t \in 1..MaxPingTasks |-> FALSE]
    /\ inbox = [c \in Clients |-> <<>>]
    /\ broken = {}
    /\ tasks_created = 0
    /\ pings_sent = 0
    /\ echoes = [c \in Clients |-> 0]
    /\ rep = [p \in Broadcasters |-> NoReport]
    /\ serial = TRUE

\* websocket_endpoint calls connect(), and websocket.accept() completes.
\* (Until then connect() has touched nothing of the manager.) Clients are
\* numbered in the order they are accepted.
EndpointAccepted(c) ==
    /\ pc[Endpoint(c)] = "new"
    /\ IF c = 1 THEN TRUE ELSE pc[Endpoint(c - 1)] # "new"
    /\ \E fail \in Outcomes(c) :
          /\ Install(Endpoint(c), AcceptDone(Cur, c, fail))
          /\ broken' = IF fail THEN broken \cup {c} ELSE broken

EndpointWelcomed(c) ==
    /\ pc[Endpoint(c)] = "welcome"
    /\ \E fail \in Outcomes(c) :
          /\ Install(Endpoint(c), WelcomeDone(Cur, c, fail))
          /\ broken' = IF fail THEN broken \cup {c} ELSE broken

\* the client closes the connection: receive_text() raises
\* WebSocketDisconnect and the finally clause disconnects
EndpointLeave(c) ==
    /\ pc[Endpoint(c)] = "recv"
    /\ Install(Endpoint(c), Disconnect(Cur, Endpoint(c), c, "closed"))
    /\ broken' = broken \cup {c}

\* the client sends a text: receive_text() returns it and the endpoint
\* echoes it with send_personal_message()
EndpointReceive(c) ==
    /\ pc[Endpoint(c)] = "recv"
    /\ Install(Endpoint(c), SendPersonal(Cur, c))
    /\ UNCHANGED broken

EndpointEchoed(c) ==
    /\ pc[Endpoint(c)] = "echo"
    /\ \E fail \in Outcomes(c) :
          /\ Install(Endpoint(c), EchoDone(Cur, c, fail))
          /\ broken' = IF fail THEN broken \cup {c} ELSE broken

\* a scheduled handle_ai_prediction starts and broadcasts its result; the
\* loop starts the units in the order they were scheduled
UnitStart(u) ==
    /\ pc[Unit(u)] = "new"
    /\ IF u = 1 THEN TRUE ELSE pc[Unit(u - 1)] # "new"
    /\ Install(Unit(u), BroadcastStart(Cur, Unit(u), AiDetection(u, FALSE)))
    /\ UNCHANGED broken

SendDone(p) ==
    /\ pc[p] = "send"
    /\ \E fail \in Outcomes(loc[p].cur) :
          /\ Install(p, ResumeSend(Cur, p, fail))
          /\ broken' = IF fail THEN broken \cup {loc[p].cur} ELSE broken

AwaitDone(p) ==
    /\ pc[p] = "await_ping"
    /\ TaskDone(Cur, loc[p].wait)
    /\ Install(p, ResumeAwait(Cur, p))
    /\ UNCHANGED broken

SelfAwaitDone(p) ==
    /\ pc[p] = "self_await"
    /\ Install(p, ResumeSelfAwait(Cur, p))
    /\ UNCHANGED broken

PingRun(p) ==
    /\ pc[p] \in {"ready", "sleep"}
    /\ Install(p, PingStep(Cur, p))
    /\ UNCHANGED broken

\* a keepalive task is resumed while no ping is due: it starts, sleeps
\* again or ends, but does not broadcast
PingIdle(p) ==
    /\ PingRun(p)
    /\ pings_sent' = pings_sent

SchedInit ==
    /\ main_event_loop = "none"
    /\ scheduled = <<>>
    /\ predicted = 0
    /\ last_outcome = "none"
    /\ raised = FALSE

\* AIProcessor.start() captures the running loop
ProcessorStart ==
    /\ main_event_loop = "none"
    /\ main_event_loop' = "open"
    /\ UNCHANGED <<scheduled, predicted, last_outcome, raised, frameVars, wsVars, pipeVars>>

\* the application shuts down and its event loop is closed
LoopClose ==
    /\ main_event_loop = "open"
    /\ main_event_loop' = "closed"
    /\ UNCHANGED <<scheduled, predicted, last_outcome, raised, frameVars, wsVars, pipeVars>>

\* _on_prediction, from its call to its return: a frame without a usable
\* image is given up; without a loop a warning is logged; on a closed loop
\* call_soon_threadsafe raises RuntimeError, which the except clause logs;
\* otherwise run_coroutine_threadsafe queues the coroutine and returns
OnPrediction_nocatch(loop, valid) ==
    IF ~valid THEN [outcome |-> "invalid", submit |-> FALSE, raise |-> FALSE]
    ELSE IF loop = "none" THEN [outcome |-> "no_loop", submit |-> FALSE, raise |-> FALSE]
    ELSE IF loop = "closed" THEN [outcome |-> "loop_closed", submit |-> FALSE, raise |-> TRUE]
    ELSE [outcome |-> "submitted", submit |-> TRUE, raise |-> FALSE]

OnPrediction(loop, valid) ==
    IF ~valid THEN [outcome |-> "invalid", submit |-> FALSE, raise |-> FALSE]
    ELSE IF loop = "none" THEN [outcome |-> "no_loop", submit |-> FALSE, raise |-> FALSE]
    ELSE IF loop = "closed" THEN [outcome |-> "loop_closed", submit |-> FALSE, raise |-> FALSE]
    ELSE [outcome |-> "submitted", submit |-> TRUE, raise |-> FALSE]

\* the consumer thread delivers the prediction of the next frame
OnPredictionCall ==
    /\ predicted < MaxUnits
    /\ \E valid \in BOOLEAN :
          LET r == OnPrediction(main_event_loop, valid) IN
          /\ predicted' = predicted + 1
          /\ scheduled' = IF r.submit THEN Append(scheduled, predicted + 1) ELSE scheduled
          /\ last_outcome' = r.outcome
          /\ raised' = (raised \/ r.raise)
    /\ UNCHANGED <<main_event_loop, frameVars, wsVars, pipeVars>>

\* the open loop starts the next coroutine it was handed, in the order of
\* submission, once every client has gone through connect()
UnitStartScheduled(u) ==
    /\ main_event_loop = "open"
    /\ \E i \in 1..Len(scheduled) :
          /\ scheduled[i] = u
          /\ \A j \in 1..(i - 1) : pc[Unit(scheduled[j])] # "new"
    /\ pc[Unit(u)] = "new"
    /\ \A c \in Clients : pc[Endpoint(c)] \notin {"new", "welcome"}
    /\ Install(Unit(u), BroadcastStart(Cur, Unit(u), AiDetection(u, FALSE)))
    /\ UNCHANGED broken

\* The consumer thread hands results to the loop, which may not have been
\* captured yet or may be closed already; settled subscribers; keepalive
\* tasks whose ping is not due.
NextSchedule ==
    \/ \E c \in Clients : EndpointAccepted(c)
    \/ \E c \in Clients : EndpointWelcomed(c)
    \/ ProcessorStart
    \/ LoopClose
    \/ OnPredictionCall
    \/ \E u \in 1..MaxUnits : UnitStartScheduled(u)
    \/ \E p \in Units : SendDone(p)
    \/ \E p \in Endpoints \cup Units : AwaitDone(p)
    \/ \E p \in PingTasks : PingIdle(p)

\* One broadcast among connecting and leaving clients: every client, the
\* first handle_ai_prediction unit, keepalive tasks whose ping is not due.
NextBroadcast ==
    \/ \E c \in Clients : EndpointAccepted(c)
    \/ \E c \in Clients : EndpointWelcomed(c)
    \/ \E c \in Clients : EndpointLeave(c)
    \/ UnitStart(1)
    \/ SendDone(Unit(1))
    \/ \E p \in Endpoints \cup {Unit(1)} : AwaitDone(p)
    \/ \E p \in PingTasks : PingIdle(p)

\* a scheduled unit starts once every client has gone through connect()
UnitStartSettled(u) ==
    /\ \A c \in Clients : pc[Endpoint(c)] \notin {"new", "welcome"}
    /\ UnitStart(u)

\* Several handle_ai_prediction units in flight over settled subscribers:
\* the clients connect, then the units broadcast concurrently; no client
\* leaves by itself, but any transport may fail; keepalive tasks whose ping
\* is not due.
NextUnits ==
    \/ \E c \in Clients : EndpointAccepted(c)
    \/ \E c \in Clients : EndpointWelcomed(c)
    \/ \E u \in 1..MaxUnits : UnitStartSettled(u)
    \/ \E p \in Units : SendDone(p)
    \/ \E p \in Endpoints \cup Units : AwaitDone(p)
    \/ \E p \in PingTasks : PingIdle(p)

\* the clients whose transport takes a send without ever completing it,
\* unless it pleases
SlowClients == {1}

\* a send of broadcast() to a client that is not slow completes
SendDonePrompt(p) ==
    /\ pc[p] = "send"
    /\ loc[p].cur \notin SlowClients
    /\ SendDone(p)

\* a send of broadcast() to a slow client completes after all
SendDoneSlow(p) ==
    /\ pc[p] = "send"
    /\ loc[p].cur \in SlowClients
    /\ SendDone(p)

\* the steps the event loop is sure to take: everything but the
\* completion of a send to a slow client
NextSlowFair ==
    \/ \E c \in Clients : EndpointAccepted(c)
    \/ \E c \in Clients : EndpointWelcomed(c)
    \/ UnitStartSettled(1)
    \/ SendDonePrompt(Unit(1))
    \/ \E p \in Endpoints \cup {Unit(1)} : AwaitDone(p)
    \/ \E p \in PingTasks : PingIdle(p)

\* One broadcast over settled subscribers, one of them slow.
NextSlow ==
    \/ NextSlowFair
    \/ SendDoneSlow(Unit(1))

\* The units and the keepalive side by side over settled subscribers: the
\* clients connect, the units broadcast, the keepalive tasks ping.
NextMixed ==
    \/ \E c \in Clients : EndpointAccepted(c)
    \/ \E c \in Clients : EndpointWelcomed(c)
    \/ \E u \in 1..MaxUnits : UnitStartSettled(u)
    \/ \E p \in Broadcasters : SendDone(p)
    \/ \E p \in Procs : AwaitDone(p)
    \/ \E p \in PingTasks : SelfAwaitDone(p)
    \/ \E p \in PingTasks : PingRun(p)

\* Clients that connect, send texts that are echoed to them, and leave;
\* keepalive tasks whose ping is not due.
NextPersonal ==
    \/ \E c \in Clients : EndpointAccepted(c)
    \/ \E c \in Clients : EndpointWelcomed(c)
    \/ \E c \in Clients : EndpointReceive(c)
    \/ \E c \in Clients : EndpointEchoed(c)
    \/ \E c \in Clients : EndpointLeave(c)
    \/ \E p \in Endpoints : AwaitDone(p)
    \/ \E p \in PingTasks : PingIdle(p)

\* The keepalive lifecycle: the clients and the keepalive tasks with their
\* pings, no handle_ai_prediction unit.
NextKeepalive ==
    \/ \E c \in Clients : EndpointAccepted(c)
    \/ \E c \in Clients : EndpointWelcomed(c)
    \/ \E c \in Clients : EndpointLeave(c)
    \/ \E p \in PingTasks : SendDone(p)
    \/ \E p \in Endpoints \cup PingTasks : AwaitDone(p)
    \/ \E p \in PingTasks : SelfAwaitDone(p)
    \/ \E p \in PingTasks : PingRun(p)

----------------------------------------------------------------------------
\* Part 3: the payload of one handle_ai_prediction unit, the capture
\* timestamp on its way to that payload, AIProcessor.start()/stop() and
\* the application's shutdown_event()

\* raw predictions in one batch
MaxPreds == 2
\* image heights and widths run from 0 to MaxDim
MaxDim == 2
\* calls of AIProcessor.start()
MaxStarts == 2
\* capture times are the multiples of Tick nanoseconds up to MaxTicks * Tick
MaxTicks == 60
Tick == 33333333
\* Gst.SECOND, the nanoseconds in a second
Gst_SECOND == 1000000000

\* Pipeline.__init__ and SystemMonitor.__init__
VideoInit ==
    /\ input_queue = <<>>
    /\ output_queue = <<>>
    /\ pipeline_running = FALSE
    /\ worker_pc = "none"
    /\ worker_item = None
    /\ processing_stats = [total_frames |-> 0, error_count |-> 0]
    /\ items = <<>>

PipeInit ==
    /\ frame_producer = "producer"
    /\ model = TRUE
    /\ processor_is_running = FALSE
    /\ inference_pipeline = "none"
    /\ start_calls = <<>>
    /\ stopPc = "idle"
    /\ stopped = FALSE
    /\ shutdownPc = "idle"
    /\ handled = None
    /\ relayed = None
    /\ created = [video_source |-> 0, inference_pipeline |-> 0, loop_task |-> 0]
    /\ retrieved = <<>>
    /\ last_stop = None
    /\ VideoInit

\* the keys handle_ai_prediction reads from one raw prediction
Fields == {"x", "y", "width", "height", "confidence", "class"}

\* One item of predictions_data["predictions"]: each key absent (None) or
\* present; pixel coordinates, a confidence, a class label.  At most one
\* key is absent per item.
RawPredictions ==
    {p \in [x : {None, Some(1), Some(3)}, y : {None, Some(1)},
            width : {None, Some(2)}, height : {None, Some(1)},
            confidence : {None, Some(1), Some(2)},
            class : {None, Some("person")}] :
        Cardinality({f \in Fields : p[f] = None}) <= 1}

\* predictions_data["predictions"], in the model's order
Batches == UNION {[1..n -> RawPredictions] : n \in 0..MaxPreds}

\* frame_info["image_shape"]: None, or (height, width, channels)
ImageShapes == {None} \cup {<<h, w, 3>> : h \in 0..MaxDim, w \in 0..MaxDim}

\* a / b for b > 0, kept exact as the fraction n / d
Div(a, b) == [n |-> a, d |-> b]

\* DetectionObject(...): pydantic validates confidence against ge=0, le=1
\* and raises ValidationError, a ValueError, when it fails; the other
\* fields are plain floats
DetectionObject(class_name, confidence, x_center, y_center, width, height) ==
    IF confidence < 0 \/ confidence > 1
    THEN [ok |-> FALSE, obj |-> None]
    ELSE [ok |-> TRUE,
          obj |-> Some([class_name |-> class_name, confidence |-> confidence,
                        x_center |-> x_center, y_center |-> y_center,
                        width |-> width, height |-> height])]

\* the loop body with the two divisors exchanged
NormalizeOne_swapped(pred, img_width, img_height, processed_detections) ==
    IF \E f \in Fields : pred[f] = None
    THEN processed_detections
    ELSE LET d == DetectionObject(pred.class[1], pred.confidence[1],
                      Div(pred.x[1], img_height), Div(pred.y[1], img_width),
                      Div(pred.width[1], img_height), Div(pred.height[1], img_width))
         IN IF d.ok THEN Append(processed_detections, d.obj[1])
            ELSE processed_detections

\* the loop body with an incomplete item discarding what was collected
NormalizeOne_reset(pred, img_width, img_height, processed_detections) ==
    IF \E f \in Fields : pred[f] = None
    THEN <<>>
    ELSE LET d == DetectionObject(pred.class[1], pred.confidence[1],
                      Div(pred.x[1], img_width), Div(pred.y[1], img_height),
                      Div(pred.width[1], img_width), Div(pred.height[1], img_height))
         IN IF d.ok THEN Append(processed_detections, d.obj[1])
            ELSE processed_detections

\* handle_ai_prediction, the body of "for pred in raw_predictions": an item
\* with a key missing is skipped with a warning; otherwise the item is
\* divided by the image size and appended, unless DetectionObject raises,
\* which except (ValueError, TypeError) logs
NormalizeOne(pred, img_width, img_height, processed_detections) ==
    IF \E f \in Fields : pred[f] = None
    THEN processed_detections
    ELSE LET d == DetectionObject(pred.class[1], pred.confidence[1],
                      Div(pred.x[1], img_width), Div(pred.y[1], img_height),
                      Div(pred.width[1], img_width), Div(pred.height[1], img_height))
         IN IF d.ok THEN Append(processed_detections, d.obj[1])
            ELSE processed_detections

RECURSIVE NormalizeLoop(_, _, _, _)
\* handle_ai_prediction, "for pred in raw_predictions", from the first item on
NormalizeLoop(raw_predictions, img_width, img_height, processed_detections) ==
    IF raw_predictions = <<>> THEN processed_detections
    ELSE NormalizeLoop(Tail(raw_predictions), img_width, img_height,
                       NormalizeOne(Head(raw_predictions), img_width, img_height,
                                    processed_detections))

\* handle_ai_prediction, from "processed_detections = []" to the end of the
\* loop: without a usable image shape only a warning is logged
ProcessDetections(image_shape, raw_predictions) ==
    IF image_shape # None /\ Len(image_shape) >= 2
    THEN LET img_height == image_shape[1]
             img_width == image_shape[2]
         IN IF img_width > 0 /\ img_height > 0
            THEN NormalizeLoop(raw_predictions, img_width, img_height, <<>>)
            ELSE <<>>
    ELSE <<>>

\* AIDetectionResult(frame_id=..., timestamp=..., fps=..., detections=...,
\* error=...), as model_dump(exclude_none=True) hands it to the broadcast
AIDetectionResult(frame_id, timestamp, detections, error) ==
    [frame_id |-> frame_id, timestamp |-> timestamp, detections |-> detections,
     error |-> error]

\* int(raw_timestamp.timestamp() * 1000): a datetime holds whole
\* microseconds since the epoch; int() cuts the fraction of a millisecond
TimestampMs(dt) == dt \div 1000

\* handle_ai_prediction, the payload it hands to broadcast_ai_result
HandleAiPrediction(frame_info, raw_predictions) ==
    AIDetectionResult(frame_info.frame_id, TimestampMs(frame_info.timestamp),
                      ProcessDetections(frame_info.image_shape, raw_predictions),
                      None)

\* One unit builds its payload; the broadcast of the payload is UnitStart.
HandleAiPredictionCall ==
    /\ handled = None
    /\ \E image_shape \in ImageShapes, raw_predictions \in Batches :
          LET frame_info == [frame_id |-> 1, timestamp |-> 2500,
                             image_shape |-> image_shape]
          IN handled' = Some([frame_info |-> frame_info,
                              predictions |-> raw_predictions,
                              payload |-> HandleAiPrediction(frame_info, raw_predictions)])
    /\ UNCHANGED <<frameVars, wsVars, schedVars, frame_producer, model,
                   processor_is_running, inference_pipeline, start_calls,
                   stopPc, stopped, shutdownPc, relayed, histVars>>

NextNormalize == HandleAiPredictionCall

----------------------------------------------------------------------------
\* the capture timestamp from the callback to the payload

CaptureTimes == {k * Tick : k \in 0..MaxTicks}

\* on_new_sample_callback with the presentation time queued in nanoseconds
SampleTimestamp_ns(pts) ==
    IF pts = None THEN None ELSE Some([n |-> pts[1], d |-> 1])

\* on_new_sample_callback: buffer.pts / Gst.SECOND, a float of seconds, or
\* None for CLOCK_TIME_NONE, is what it queues with the frame
SampleTimestamp(pts) ==
    IF pts = None THEN None ELSE Some([n |-> pts[1], d |-> Gst_SECOND])

\* _on_new_sample_from_push: int(time.time() * 1_000_000_000), whole nanoseconds
PushTimestamp(t) == Some([n |-> t[1], d |-> 1])

\* datetime.fromtimestamp(timestamp_ns / 1_000_000_000) for the queued
\* number ts.n / ts.d: the microseconds of the datetime, the fraction of a
\* microsecond rounded half to even
FromTimestamp(ts) ==
    LET units == ts.n \div ts.d
        q == units \div 1000
        r == units % 1000
        up == r > 500 \/ (r = 500 /\ (ts.n % ts.d > 0 \/ q % 2 = 1))
    IN IF up THEN q + 1 ELSE q

\* read_frame, the frame_timestamp of the VideoFrame: the queued number
\* converted, datetime.now() when it is None
ReadFrameTimestamp(timestamp_ns, now) ==
    IF timestamp_ns # None THEN FromTimestamp(timestamp_ns[1]) ELSE now

\* One frame goes from a capture callback through the queue, read_frame()
\* and _on_prediction (which passes the datetime on) to the payload.
RelayFrame ==
    /\ relayed = None
    /\ \E callback \in {"push", "sample"},
          capture \in {None} \cup {Some(t) : t \in CaptureTimes},
          now \in {FromTimestamp([n |-> t, d |-> 1]) : t \in CaptureTimes} :
          /\ callback = "push" => capture # None
          /\ capture # None => now = 0
          /\ LET queued == IF callback = "push" THEN PushTimestamp(capture)
                           ELSE SampleTimestamp(capture)
                 frame_timestamp == ReadFrameTimestamp(queued, now)
             IN relayed' = Some([callback |-> callback, capture |-> capture,
                                 queued |-> queued,
                                 frame_timestamp |-> frame_timestamp,
                                 timestamp |-> TimestampMs(frame_timestamp)])
    /\ UNCHANGED <<frameVars, wsVars, schedVars, frame_producer, model,
                   processor_is_running, inference_pipeline, start_calls,
                   stopPc, stopped, shutdownPc, handled, histVars>>

NextRelay == RelayFrame

----------------------------------------------------------------------------
\* AIProcessor.start() and stop(), main.shutdown_event()

\* the step of start() that the environment makes fail, if any: the
\* creation or start of GStreamerVideoSource, get_model(), the creation of
\* InferencePipeline, its start()
StartFailures == {"none", "source", "model", "pipeline", "pipeline_start"}

\* the except clause of start() logging the exception without raising it
StartRaise_swallow(run, ip, mdl) ==
    [outcome |-> "returned", is_running |-> FALSE, running |-> run,
     inference_pipeline |-> ip, model |-> mdl]

\* start(), "except Exception": is_running is cleared and the exception
\* raised again; what was done before the failure stays done
StartRaise(run, ip, mdl) ==
    [outcome |-> "raised", is_running |-> FALSE, running |-> run,
     inference_pipeline |-> ip, model |-> mdl]

\* AIProcessor.start(), from the call to its return or raise: how it ends
\* and what it leaves in is_running, in the frame producer's running, in
\* inference_pipeline and in model
AIProcessorStart(failure) ==
    IF processor_is_running
    THEN [outcome |-> "already_running", is_running |-> TRUE, running |-> running,
          inference_pipeline |-> inference_pipeline, model |-> model]
    ELSE IF frame_producer = "other"
    THEN StartRaise(running, inference_pipeline, model)
    ELSE IF frame_producer = "none"
    THEN StartRaise(running, inference_pipeline, model)
    ELSE IF failure = "source"
    THEN StartRaise(TRUE, inference_pipeline, model)
    ELSE IF ~model /\ failure = "model"
    THEN StartRaise(TRUE, inference_pipeline, FALSE)
    ELSE IF failure = "pipeline"
    THEN StartRaise(TRUE, inference_pipeline, TRUE)
    ELSE IF failure = "pipeline_start"
    THEN StartRaise(TRUE, "created", TRUE)
    ELSE [outcome |-> "started", is_running |-> TRUE, running |-> TRUE,
          inference_pipeline |-> "started", model |-> TRUE]

\* start() that goes through its body although the processor runs
StartCreates_again(failure) ==
    IF frame_producer # "producer"
    THEN [video_source |-> 0, inference_pipeline |-> 0, loop_task |-> 0]
    ELSE IF failure = "source" \/ (~model /\ failure = "model") \/ failure = "pipeline"
    THEN [video_source |-> 1, inference_pipeline |-> 0, loop_task |-> 0]
    ELSE IF failure = "pipeline_start"
    THEN [video_source |-> 1, inference_pipeline |-> 1, loop_task |-> 0]
    ELSE [video_source |-> 1, inference_pipeline |-> 1, loop_task |-> 1]

\* the objects one call of start() creates: the GStreamerVideoSource once
\* the producer was accepted, the InferencePipeline once the model is
\* there, the keep-alive task of _run_inference_loop after is_running is
\* set; none at all when start() returns at its first test
StartCreates(failure) ==
    IF processor_is_running
    THEN [video_source |-> 0, inference_pipeline |-> 0, loop_task |-> 0]
    ELSE IF frame_producer # "producer"
    THEN [video_source |-> 0, inference_pipeline |-> 0, loop_task |-> 0]
    ELSE IF failure = "source" \/ (~model /\ failure = "model") \/ failure = "pipeline"
    THEN [video_source |-> 1, inference_pipeline |-> 0, loop_task |-> 0]
    ELSE IF failure = "pipeline_start"
    THEN [video_source |-> 1, inference_pipeline |-> 1, loop_task |-> 0]
    ELSE [video_source |-> 1, inference_pipeline |-> 1, loop_task |-> 1]

\* a call of start() on the event loop; the loop is captured first
AIProcessorStartCall ==
    /\ Len(start_calls) < MaxStarts
    /\ stopPc = "idle"
    /\ shutdownPc = "idle"
    /\ \E failure \in StartFailures :
          LET r == AIProcessorStart(failure) IN
          /\ start_calls' = Append(start_calls,
                                   [failure |-> failure, model |-> model,
                                    was_running |-> processor_is_running,
                                    outcome |-> r.outcome])
          /\ processor_is_running' = r.is_running
          /\ running' = r.running
          /\ inference_pipeline' = r.inference_pipeline
          /\ model' = r.model
          /\ created' = [k \in DOMAIN created |-> created[k] + StartCreates(failure)[k]]
    /\ main_event_loop' = IF processor_is_running THEN main_event_loop ELSE "open"
    /\ stopped' = FALSE
    /\ last_stop' = None
    /\ UNCHANGED <<frame_queue, frame_id_counter, last_read_video_frame,
                   last_retrieved_frame_id, pushed, dropped, dequeued, relPc,
                   cleared_count, relPushed, relMark, calls>>
    /\ UNCHANGED <<wsVars, scheduled, predicted, last_outcome, raised>>
    /\ UNCHANGED <<frame_producer, stopPc, shutdownPc, handled, relayed, retrieved, videoVars>>

\* stop() up to its call of frame_producer.release(): InferencePipeline.stop()
\* is taken to return; release() then runs beside the capture thread
StopEnter ==
    /\ processor_is_running
    /\ stopPc = "idle"
    /\ stopPc' = "release"
    /\ ReleaseCall
    /\ UNCHANGED <<wsVars, schedVars, frame_producer, model, processor_is_running,
                   inference_pipeline, start_calls, stopped, handled, relayed, histVars>>

\* stop() from the return of release() to its own return
StopLeave ==
    /\ stopPc = "release"
    /\ stopPc' = "idle"
    /\ ReleaseReturn
    /\ inference_pipeline' = "none"
    /\ processor_is_running' = FALSE
    /\ stopped' = TRUE
    /\ last_stop' = Some("returned")
    /\ UNCHANGED <<wsVars, schedVars, frame_producer, model, start_calls,
                   handled, relayed, created, retrieved, videoVars>>

\* stop() on a processor that does not run: it returns at its first test
StopNoop ==
    /\ ~processor_is_running
    /\ stopPc = "idle"
    /\ shutdownPc = "idle"
    /\ last_stop' = Some("noop")
    /\ UNCHANGED <<frameVars, wsVars, schedVars, frame_producer, model,
                   processor_is_running, inference_pipeline, start_calls, stopPc,
                   stopped, shutdownPc, handled, relayed, created, retrieved, videoVars>>

\* stop() on a running processor when inference_pipeline.stop() or
\* frame_producer.release() raises: the two assignments at the end of the
\* try block are not reached, "except Exception" logs and raises again
StopRaise ==
    /\ processor_is_running
    /\ stopPc = "idle"
    /\ shutdownPc = "idle"
    /\ last_stop' = Some("raised")
    /\ UNCHANGED <<frameVars, wsVars, schedVars, frame_producer, model,
                   processor_is_running, inference_pipeline, start_calls, stopPc,
                   stopped, shutdownPc, handled, relayed, created, retrieved, videoVars>>

\* AIProcessor.stop() called by itself
StopCall == shutdownPc = "idle" /\ StopEnter /\ UNCHANGED shutdownPc

StopReturn == shutdownPc = "idle" /\ StopLeave /\ UNCHANGED shutdownPc

\* release() at work inside stop()
StopReleaseTest == stopPc = "release" /\ ReleaseTest /\ UNCHANGED <<wsVars, schedVars, pipeVars>>

StopReleaseGet == stopPc = "release" /\ ReleaseGet /\ UNCHANGED <<wsVars, schedVars, pipeVars>>

\* shutdown_event() up to the end of "await ai_processor.stop()", when the
\* processor runs: stop() has no await of its own
ShutdownStop ==
    /\ shutdownPc = "idle"
    /\ shutdownPc' = "stop"
    /\ StopEnter

\* shutdown_event() with a processor that does not run: stop() returns at
\* once; the periodic task is cancelled and awaited
ShutdownSkip ==
    /\ shutdownPc = "idle"
    /\ ~processor_is_running
    /\ stopPc = "idle"
    /\ shutdownPc' = "tasks"
    /\ UNCHANGED <<frameVars, wsVars, schedVars, frame_producer, model,
                   processor_is_running, inference_pipeline, start_calls,
                   stopPc, stopped, handled, relayed, histVars>>

\* stop() returns into shutdown_event(), which cancels the periodic task
\* and awaits it
ShutdownStopped ==
    /\ shutdownPc = "stop"
    /\ shutdownPc' = "tasks"
    /\ StopLeave

\* the cancelled tasks are done: "优雅关闭完成"; nothing in shutdown_event()
\* refers to the ConnectionManager
ShutdownDone ==
    /\ shutdownPc = "tasks"
    /\ shutdownPc' = "done"
    /\ UNCHANGED <<frameVars, wsVars, schedVars, frame_producer, model,
                   processor_is_running, inference_pipeline, start_calls,
                   stopPc, stopped, handled, relayed, histVars>>

\* the event loop is free to run another coroutine: stop() is not inside
\* its synchronous body and the application has not finished shutting down
LoopFree == stopPc = "idle" /\ shutdownPc # "done"

\* The processor is started and stopped while the capture thread pushes
\* frames and the consumer grabs them.
NextProcessor ==
    \/ AIProcessorStartCall
    \/ StopCall
    \/ StopReleaseTest
    \/ StopReleaseGet
    \/ StopReturn
    \/ OnNewSampleFromPush /\ UNCHANGED <<wsVars, schedVars, pipeVars>>
    \/ Grab /\ UNCHANGED <<wsVars, schedVars, pipeVars>>

\* The processor is started and stopped; a stop() may fail, and stop() is
\* also called on a processor that does not run; the capture thread pushes.
NextStop ==
    \/ AIProcessorStartCall
    \/ StopCall
    \/ StopReleaseTest
    \/ StopReleaseGet
    \/ StopReturn
    \/ StopRaise
    \/ StopNoop
    \/ OnNewSampleFromPush /\ UNCHANGED <<wsVars, schedVars, pipeVars>>

\* The application starts the processor once, clients connect, the capture
\* thread pushes frames while the processor runs, and the application
\* shuts down; no client leaves by itself; keepalive tasks whose ping is
\* not due.
NextShutdown ==
    \/ \E c \in Clients : LoopFree /\ EndpointAccepted(c)
    \/ \E c \in Clients : LoopFree /\ EndpointWelcomed(c)
    \/ \E p \in PingTasks : LoopFree /\ PingIdle(p)
    \/ processor_is_running /\ OnNewSampleFromPush /\ UNCHANGED <<wsVars, schedVars, pipeVars>>
    \/ start_calls = <<>> /\ AIProcessorStartCall
    \/ ShutdownStop
    \/ ShutdownSkip
    \/ StopReleaseTest
    \/ StopReleaseGet
    \/ ShutdownStopped
    \/ ShutdownDone

----------------------------------------------------------------------------
\* Part 4: the video-service Pipeline and its worker

\* everything but the Pipeline and its monitor
restVars == <<frameVars, wsVars, schedVars, frame_producer, model,
              processor_is_running, inference_pipeline, start_calls, stopPc, stopped,
              shutdownPc, handled, relayed, created, retrieved, last_stop>>

\* process_item of a Pipeline subclass: it returns a result made from the
\* item or raises; which of the two is a property of the item
ProcessItem(item) == [raised |-> item.bad, result |-> [of |-> item.n]]

\* SystemMonitor.record_frame_processed
RecordFrameProcessed(stats) == [stats EXCEPT !.total_frames = @ + 1]

\* SystemMonitor.record_error
RecordError(stats) == [stats EXCEPT !.error_count = @ + 1]

\* Pipeline.start(): _running is set and the worker task created; the
\* worker runs up to its first "await self._input_queue.get()"
PipelineStart ==
    /\ worker_pc = "none"
    /\ pipeline_running' = TRUE
    /\ worker_pc' = "get"
    /\ UNCHANGED <<input_queue, output_queue, worker_item, processing_stats, items>>
    /\ UNCHANGED restVars

\* Pipeline.push(data): the queue is unbounded, put() does not wait
PipelinePush ==
    /\ Len(items) < MaxItems
    /\ \E bad \in BOOLEAN :
          LET item == [n |-> Len(items) + 1, bad |-> bad] IN
          /\ input_queue' = Append(input_queue, item)
          /\ items' = Append(items, item)
    /\ UNCHANGED <<output_queue, pipeline_running, worker_pc, worker_item,
                   processing_stats>>
    /\ UNCHANGED restVars

\* _worker: "await self._input_queue.get()" returns the oldest item and
\* process_item is awaited
WorkerGet ==
    /\ worker_pc = "get"
    /\ input_queue # <<>>
    /\ worker_item' = Some(Head(input_queue))
    /\ input_queue' = Tail(input_queue)
    /\ worker_pc' = "process"
    /\ UNCHANGED <<output_queue, pipeline_running, processing_stats, items>>
    /\ UNCHANGED restVars

\* _worker without its except clause: the exception ends the worker task
WorkerProcess_die ==
    /\ worker_pc = "process"
    /\ LET r == ProcessItem(worker_item[1]) IN
       IF r.raised
       THEN /\ worker_pc' = "done"
            /\ UNCHANGED <<processing_stats, output_queue>>
       ELSE /\ processing_stats' = RecordFrameProcessed(processing_stats)
            /\ output_queue' = Append(output_queue, r.result)
            /\ worker_pc' = IF pipeline_running THEN "get" ELSE "done"
    /\ worker_item' = None
    /\ UNCHANGED <<input_queue, pipeline_running, items>>
    /\ UNCHANGED restVars

\* _worker: process_item returns and the result is recorded and put on
\* the output queue, or it raises and "except Exception" records the
\* error and continues; then the loop test and the next get()
WorkerProcess ==
    /\ worker_pc = "process"
    /\ LET r == ProcessItem(worker_item[1]) IN
       IF r.raised
       THEN /\ processing_stats' = RecordError(processing_stats)
            /\ UNCHANGED output_queue
       ELSE /\ processing_stats' = RecordFrameProcessed(processing_stats)
            /\ output_queue' = Append(output_queue, r.result)
    /\ worker_item' = None
    /\ worker_pc' = IF pipeline_running THEN "get" ELSE "done"
    /\ UNCHANGED <<input_queue, pipeline_running, items>>
    /\ UNCHANGED restVars

\* the steps of the worker task
WorkerRuns ==
    \/ WorkerGet
    \/ WorkerProcess

\* A Pipeline with a monitor is started and fed; the outputs are left on
\* the output queue and the pipeline is not stopped.
NextPipeline ==
    \/ PipelineStart
    \/ PipelinePush
    \/ WorkerRuns

Init == FrameInit /\ WsInit /\ SchedInit /\ PipeInit

SpecFrame == Init /\ [][NextFrame]_vars

SpecBroadcast == Init /\ [][NextBroadcast]_vars

SpecUnits == Init /\ [][NextUnits]_vars

SpecKeepalive == Init /\ [][NextKeepalive]_vars

SpecMixed == Init /\ [][NextMixed]_vars

SpecPersonal == Init /\ [][NextPersonal]_vars

SpecSchedule == Init /\ [][NextSchedule]_vars

SpecSlow == Init /\ [][NextSlow]_vars /\ WF_vars(NextSlowFair)

\* an AIProcessor as its constructor leaves it: with or without a frame
\* producer, the model loaded or not
InitProcessor ==
    /\ FrameInit
    /\ WsInit
    /\ SchedInit
    /\ frame_producer \in {"none", "other", "producer"}
    /\ model \in BOOLEAN
    /\ processor_is_running = FALSE
    /\ inference_pipeline = "none"
    /\ start_calls = <<>>
    /\ stopPc = "idle"
    /\ stopped = FALSE
    /\ shutdownPc = "idle"
    /\ handled = None
    /\ relayed = None
    /\ created = [video_source |-> 0, inference_pipeline |-> 0, loop_task |-> 0]
    /\ retrieved = <<>>
    /\ last_stop = None
    /\ VideoInit

SpecNormalize == Init /\ [][NextNormalize]_vars

SpecRelay == Init /\ [][NextRelay]_vars

SpecProcessor == InitProcessor /\ [][NextProcessor]_vars

SpecShutdown == Init /\ [][NextShutdown]_vars

SpecConsume == Init /\ [][NextConsume]_vars

SpecAppsink == Init /\ [][NextAppsink]_vars

SpecOrder == Init /\ [][NextOrder]_vars

SpecStop == InitProcessor /\ [][NextStop]_vars

\* the event loop runs the worker task whenever it is ready
SpecPipeline == Init /\ [][NextPipeline]_vars /\ WF_vars(WorkerRuns)

\* the thread that called release() keeps running
SpecDrain == Init /\ [][NextDrain]_vars /\ WF_vars(ReleaseRuns)

----------------------------------------------------------------------------
\* Properties of the frame queue and the frame source (SpecFrame)

Min(a, b) == IF a < b THEN a ELSE b
Max(a, b) == IF a > b THEN a ELSE b
LastCall == calls[Len(calls)]

\* C1: in every reachable state, whatever the interleaving of capture pushes,
\* grab()/read_frame() and release() steps, the shared frame queue holds at
\* most maxsize frames.
C1_QueueNeverExceedsCapacity == Len(frame_queue) <= maxsize

\* a full queue on which a further push was attempted
C1_Witness == Len(frame_queue) = maxsize /\ dropped > 0 /\ dequeued

\* C2: the capture callback never blocks (it can always run to completion),
\* and when it runs on a full queue the frame is discarded: the queue holds
\* the same frames in the same order afterwards and one drop is logged.
C2_DropOnFullKeepsQueue ==
    /\ [](pushed < MaxPush => ENABLED OnNewSampleFromPush)
    /\ [][(pushed' = pushed + 1 /\ Len(frame_queue) = maxsize)
            => (frame_queue' = frame_queue /\ dropped' = dropped + 1)]_vars

\* a push was dropped and the oldest frame, frame 1, is still at the head
C2_Witness ==
    /\ dropped > 0
    /\ Len(frame_queue) = maxsize
    /\ Head(frame_queue) = 1

\* C3: as long as nothing was dequeued, after k pushes the queue holds
\* exactly frames 1..min(k, maxsize) in push order and max(0, k - maxsize)
\* drops were logged.
C3_BackToBackPushes ==
    ~dequeued =>
        /\ frame_queue = [i \in 1..Min(pushed, maxsize) |-> i]
        /\ dropped = Max(0, pushed - maxsize)

\* more pushes than the capacity, none dequeued, at least two dropped
C3_Witness ==
    /\ ~dequeued
    /\ pushed >= maxsize + 2
    /\ Len(frame_queue) = maxsize
    /\ dropped = pushed - maxsize

\* C4: a retrieve() returns (True, frame) exactly when the call before it
\* (among grab() and retrieve() calls) was a successful grab(), and then the
\* frame is the one that grab() took; a retrieve() that is the first call,
\* follows a failed grab() or follows another retrieve() returns (False, None).
C4_HolderIsOneShot ==
    (Len(calls) > 0 /\ LastCall.op = "retrieve") =>
        IF Len(calls) = 2 /\ calls[1].op = "grab" /\ calls[1].ok
        THEN LastCall.ok /\ LastCall.img = calls[1].img /\ LastCall.img # None
        ELSE ~LastCall.ok /\ LastCall.img = None

\* a second retrieve() after one successful grab(): success, then failure
C4_Witness ==
    /\ Len(calls) = 2
    /\ calls[1] = [op |-> "retrieve", ok |-> TRUE, img |-> Some(2)]
    /\ calls[2] = [op |-> "retrieve", ok |-> FALSE, img |-> None]

\* C5: after a grab() that failed the holder is empty, also when the grab()
\* before it succeeded and was never retrieved; a retrieve() right after a
\* failed grab() returns (False, None).
C5_FailedGrabClearsHolder ==
    /\ (Len(calls) > 0 /\ LastCall.op = "grab" /\ ~LastCall.ok)
          => last_read_video_frame = None
    /\ (Len(calls) = 2 /\ calls[1].op = "grab" /\ ~calls[1].ok
          /\ calls[2].op = "retrieve")
          => (~calls[2].ok /\ calls[2].img = None)

\* a successful grab() whose frame was not retrieved, then a grab() that
\* timed out on the empty queue
C5_Witness ==
    /\ running
    /\ Len(calls) = 2
    /\ calls[1].op = "grab" /\ calls[1].ok
    /\ calls[2].op = "grab" /\ ~calls[2].ok
    /\ last_read_video_frame = None

\* C6: no step of release() changes the running flag, and when release()
\* returns every frame that was queued when it was called is gone; if no
\* push succeeded while it ran, the queue is empty.
C6_ReleasePurgesAndKeepsRunning ==
    /\ [][relPc' # relPc => running' = running]_vars
    /\ [][(relPc = "exit" /\ relPc' = "idle") =>
            /\ \A i \in 1..Len(frame_queue') : frame_queue'[i] > relMark
            /\ ~relPushed => frame_queue' = <<>>]_vars

\* a release() on a started source has removed two frames and is returning
C6_Witness ==
    /\ relPc = "exit"
    /\ cleared_count >= 2
    /\ ~relPushed
    /\ running
    /\ frame_queue = <<>>

Range(q) == {q[i] : i \in 1..Len(q)}
Count(q, x) == Cardinality({i \in 1..Len(q) : q[i] = x})

\* the keepalive tasks that were created and have not finished
Alive == {t \in 1..MaxPingTasks : pc[PingTask(t)] \notin {"unborn", "done"}}

\* C7: a broadcast pass during which no other coroutine changed the registry
\* is never aborted by a failing transmit; when it returns, every subscriber
\* registered at its start was attempted exactly once, those whose transmit
\* succeeded hold the message exactly once and stay registered, those whose
\* transmit failed hold none and are removed from the registry.
C7_BroadcastIsolation ==
    \A p \in Units :
        LET r == rep[p]
            att == r.ok \o r.failed
        IN r.disturb = {} =>
              /\ r.end # "aborted"
              /\ r.end = "returned" =>
                    /\ Range(att) = r.snap
                    /\ Len(att) = Cardinality(r.snap)
                    /\ r.reg = r.snap \ Range(r.failed)
                    /\ \A c \in r.snap :
                          Count(inbox[c], AiDetection(p[2], FALSE))
                             = IF c \in Range(r.ok) THEN 1 ELSE 0

C7_Witness ==
    LET r == rep[Unit(1)] IN
    /\ r.end = "returned" /\ r.disturb = {}
    /\ r.snap = {1, 2, 3}
    /\ r.ok = <<1, 3>> /\ r.failed = <<2>>
    /\ Keys(active_connections) = {1, 3}
    /\ Count(inbox[1], AiDetection(1, FALSE)) = 1
    /\ Count(inbox[3], AiDetection(1, FALSE)) = 1

\* C8: when the manager is used by one call at a time and no send fails, a
\* connect() that returns with its client as the only subscriber has started
\* exactly one keepalive task, a task that did not exist before; a connect()
\* that returns while another subscriber is registered has started none; the
\* disconnect() that empties the registry clears is_running and cancels the
\* task, and when it returns ping_task is cleared and no keepalive is alive.
C8_KeepaliveLifecycle ==
    [][serial' =>
         /\ \A c \in Clients :
               (pc[Endpoint(c)] = "welcome" /\ pc'[Endpoint(c)] = "recv") =>
                  IF Keys(active_connections) = {c}
                  THEN /\ tasks_created' = tasks_created + 1
                       /\ ping_task' = tasks_created'
                       /\ is_running'
                       /\ Alive' = {ping_task'}
                       /\ pc[PingTask(ping_task')] = "unborn"
                  ELSE /\ tasks_created' = tasks_created
                       /\ ping_task' = ping_task
                       /\ Alive' = Alive
         /\ (Keys(active_connections) # {} /\ Keys(active_connections') = {}) =>
               /\ ~is_running'
               /\ Alive' = {ping_task}
               /\ must_cancel'[ping_task]
         /\ \A c \in Clients :
               (pc[Endpoint(c)] = "await_ping" /\ pc'[Endpoint(c)] = "closed") =>
                  /\ ping_task' = 0
                  /\ ~is_running'
                  /\ Alive' = {}
    ]_vars

C8_Witness ==
    /\ serial
    /\ pc[Endpoint(1)] = "closed" /\ pc[Endpoint(2)] = "closed"
    /\ inbox[1] # <<>> /\ inbox[2] # <<>>
    /\ pc[Endpoint(3)] = "recv"
    /\ pc[PingTask(1)] = "done"
    /\ ping_task = 2 /\ is_running /\ Alive = {2}

\* C9: a broadcast pass during which another coroutine changed the registry
\* is not aborted, and at its end every subscriber that was registered at
\* its start and is registered still has had the message transmitted
\* exactly once.
C9_SnapshotIteration ==
    \A p \in Units :
        LET r == rep[p] IN
        (r.end \in {"returned", "aborted"} /\ r.disturb # {}) =>
            /\ r.end = "returned"
            /\ \A c \in r.snap \cap r.reg : Count(r.ok, c) = 1

\* C10: over settled subscribers, a unit whose own sends all succeeded and
\* whose handling is finished has delivered its ai_detection message
\* exactly once, and no error result, to every subscriber that was
\* registered when it started and is registered still, whatever the other
\* units in flight went through.
C10_UnitsIsolated ==
    \A u \in 1..MaxUnits :
        LET r == rep[Unit(u)] IN
        (pc[Unit(u)] = "done" /\ r.failed = <<>>) =>
            \A c \in r.snap \cap Keys(active_connections) :
                /\ Count(inbox[c], AiDetection(u, FALSE)) = 1
                /\ Count(inbox[c], AiDetection(u, TRUE)) = 0

\* the positions of unit u's ai_detection result in what client c received
Received(c, u) ==
    {i \in 1..Len(inbox[c]) : /\ inbox[c][i].type = "ai_detection"
                              /\ inbox[c][i].frame_id = u
                              /\ ~inbox[c][i].error}

\* C11: the units are scheduled in the order of their frames; no subscriber
\* receives the ai_detection message of a later frame before the one of an
\* earlier frame.
C11_PerSubscriberOrder ==
    \A c \in Clients : \A a, b \in 1..MaxUnits :
        a < b => \A i \in Received(c, a) : \A j \in Received(c, b) : i < j

\* no coroutine is inside connect() or disconnect()
NoConnectOrDisconnect ==
    \A p \in Procs : pc[p] \notin {"welcome", "await_ping", "self_await"}

\* the keepalive tasks that are alive with no cancellation pending
LiveKeepalive == {t \in Alive : ~must_cancel[t]}

\* C12: whenever no connect() or disconnect() is in progress, a live
\* keepalive task implies a non-empty registry.
C12_KeepaliveImpliesSubscribers ==
    (NoConnectOrDisconnect /\ LiveKeepalive # {}) => Keys(active_connections) # {}

\* C13: whenever no connect() or disconnect() is in progress and the
\* registry is non-empty, the keepalive task recorded in ping_task is alive
\* and its loop condition is_running holds.
C13_SubscribersImplyKeepalive ==
    (NoConnectOrDisconnect /\ Keys(active_connections) # {}) =>
        (is_running /\ ping_task \in LiveKeepalive)

\* C14: at most one keepalive task is alive at a time.
C14_AtMostOneKeepalive == Cardinality(LiveKeepalive) <= 1

\* C15: for a broadcast, every subscriber other than the slow one that was
\* registered at its start eventually has the message transmitted to it,
\* unless it leaves the registry.
C15_SlowSubscriberDoesNotBlock ==
    \A c \in Clients \ SlowClients :
        (rep[Unit(1)].end = "pass" /\ c \in rep[Unit(1)].snap)
            ~> (Received(c, 1) # {} \/ c \notin Keys(active_connections))

\* the positions of the connection_status messages in what client c received
Welcomes(c) == {i \in 1..Len(inbox[c]) : inbox[c][i].type = "connection_status"}

\* C16: a subscriber receives at most one connection_status message, it
\* carries the subscriber's own client_id, and a subscriber that connect()
\* has returned for and that is registered has received exactly one; a
\* broadcast_ai_result pass that returned has delivered to every subscriber
\* registered at its start and at its end, whose send did not fail, exactly
\* one ai_detection message with the frame_id of the result.
C16_WelcomeThenResult ==
    \A c \in Clients :
        /\ \A i \in Welcomes(c) : inbox[c][i].client_id = c
        /\ Cardinality(Welcomes(c)) <= 1
        /\ (pc[Endpoint(c)] = "recv" /\ c \in Keys(active_connections)) =>
               Cardinality(Welcomes(c)) = 1
        /\ \A u \in 1..MaxUnits :
              LET r == rep[Unit(u)] IN
              /\ Cardinality(Received(c, u)) <= 1
              /\ (r.end = "returned" /\ c \in (r.snap \cap r.reg) \ Range(r.failed)) =>
                     Cardinality(Received(c, u)) = 1

C16_Witness ==
    /\ pc[Endpoint(1)] = "recv"
    /\ rep[Unit(1)].end = "returned"
    /\ Len(inbox[1]) = 2
    /\ inbox[1][1].type = "connection_status" /\ inbox[1][1].client_id = 1
    /\ inbox[1][2].type = "ai_detection" /\ inbox[1][2].frame_id = 1
    /\ ~inbox[1][2].error

\* C17: a disconnect(id) called for an id that is not registered leaves the
\* registry as it is, and right after a disconnect(id) has returned a second
\* disconnect(id) would change nothing at all.
C17_DisconnectIdempotent ==
    [][\A c \in Clients :
          LET p == Endpoint(c) IN
          /\ (/\ pc[p] \in {"new", "recv"}
              /\ pc'[p] \in {"closed", "await_ping"}
              /\ c \notin Keys(active_connections)) =>
                 active_connections' = active_connections
          /\ (pc[p] # "closed" /\ pc'[p] = "closed") =>
                 (Disconnect(Cur, p, c, "closed") = Cur)'
    ]_vars

C17_Witness ==
    /\ pc[Endpoint(1)] = "recv" /\ 1 \in Keys(active_connections)
    /\ pc[Endpoint(2)] = "closed" /\ inbox[2] = <<>> /\ tasks_created = 1
    /\ pc[Endpoint(3)] = "closed" /\ inbox[3] # <<>>

\* in this step one message was transmitted to client c and none to anyone else
SentOnlyTo(c) ==
    /\ Len(inbox'[c]) = Len(inbox[c]) + 1
    /\ SubSeq(inbox'[c], 1, Len(inbox[c])) = inbox[c]
    /\ \A d \in Clients \ {c} : inbox'[d] = inbox[d]

\* C18: send_personal_message(msg, id), called for the welcome message and
\* for every echo: when its send completes, either the message went to
\* subscriber id and to nobody else and the registry is unchanged, or the
\* send failed, nothing was transmitted, id is removed and every other
\* subscriber stays registered; called for an id that is not registered it
\* sends nothing and leaves the registry unchanged.
C18_SendPersonalMessage ==
    [][\A c \in Clients :
          LET p == Endpoint(c) IN
          /\ (pc[p] \in {"welcome", "echo"} /\ pc'[p] # pc[p]) =>
                \/ /\ SentOnlyTo(c)
                   /\ inbox'[c][Len(inbox'[c])].type
                         = IF pc[p] = "echo" THEN "echo" ELSE "connection_status"
                   /\ active_connections' = active_connections
                \/ /\ inbox' = inbox
                   /\ c \in broken'
                   /\ Keys(active_connections') = Keys(active_connections) \ {c}
          /\ echoes'[c] = echoes[c] + 1 =>
                /\ inbox' = inbox
                /\ active_connections' = active_connections
                /\ pc'[p] = IF c \in Keys(active_connections) THEN "echo" ELSE "recv"
    ]_vars

C18_Witness ==
    /\ echoes = <<1, 1, 1>>
    /\ Len(inbox[1]) = 2 /\ inbox[1][2].type = "echo"
    /\ 1 \in Keys(active_connections)
    /\ pc[Endpoint(2)] = "recv" /\ 2 \notin Keys(active_connections)
    /\ Len(inbox[2]) = 1
    /\ pc[Endpoint(3)] = "recv" /\ 3 \notin Keys(active_connections)
    /\ inbox[3] = <<>>

\* C19: no call of _on_prediction raises into the consumer thread, and a
\* call is never kept waiting; a call made while no loop is captured or the
\* loop is closed hands nothing to the loop, any other call of a usable
\* frame hands its result to the loop; a unit only ever runs for a result
\* that was handed over.
C19_OnPredictionNeverRaisesNorBlocks ==
    /\ [](~raised)
    /\ [](predicted < MaxUnits => ENABLED OnPredictionCall)
    /\ [](\A u \in 1..MaxUnits :
             pc[Unit(u)] # "new" => \E i \in 1..Len(scheduled) : scheduled[i] = u)
    /\ [][predicted' = predicted + 1 =>
            /\ main_event_loop' = main_event_loop
            /\ wsVars' = wsVars
            /\ scheduled' = IF main_event_loop = "open" /\ last_outcome' # "invalid"
                            THEN Append(scheduled, predicted')
                            ELSE scheduled
         ]_vars

C19_Witness ==
    /\ main_event_loop = "closed"
    /\ predicted = 2
    /\ scheduled = <<1>>
    /\ last_outcome = "loop_closed"
    /\ pc[Unit(1)] = "done" /\ pc[Unit(2)] = "new"

\* C20: a unit always ends inside handle_ai_prediction, and a keepalive
\* task whose ping pass met no other change of the registry than the
\* evictions made by units is not ended by it while subscribers are
\* registered.
C20_UnitFailureContained ==
    /\ \A u \in 1..MaxUnits : pc[Unit(u)] \in {"new", "send", "await_ping", "done"}
    /\ \A t \in 1..MaxPingTasks :
          LET r == rep[PingTask(t)] IN
          (r.end = "aborted" /\ r.disturb = {"broadcast"}) => r.reg = {}

----------------------------------------------------------------------------
\* the payload of a unit

\* the raw predictions of a batch that have every key and a confidence
\* DetectionObject accepts, in the batch's order
Accepted(preds) ==
    SelectSeq(preds, LAMBDA p : /\ \A f \in Fields : p[f] # None
                                /\ p.confidence[1] >= 0
                                /\ p.confidence[1] <= 1)

\* the fraction q equals a / b
IsQuotient(q, a, b) == q.d # 0 /\ q.n * b = a * q.d

\* C21: for an image of width W > 0 and height H > 0 the detections of the
\* payload are, in the order of the raw predictions, the emitted raw
\* predictions with centre x and width divided by W and centre y and height
\* divided by H; when W <= 0 or H <= 0 (or the shape is missing) the
\* detection list of the payload is empty.
C21_NormalizationLaw ==
    handled # None =>
        LET shape == handled[1].frame_info.image_shape
            out == handled[1].payload.detections
            raw == Accepted(handled[1].predictions)
        IN IF shape # None /\ shape[1] > 0 /\ shape[2] > 0
           THEN /\ Len(out) = Len(raw)
                /\ \A i \in 1..Len(out) :
                      /\ IsQuotient(out[i].x_center, raw[i].x[1], shape[2])
                      /\ IsQuotient(out[i].y_center, raw[i].y[1], shape[1])
                      /\ IsQuotient(out[i].width, raw[i].width[1], shape[2])
                      /\ IsQuotient(out[i].height, raw[i].height[1], shape[1])
           ELSE out = <<>>

\* a batch of two emitted predictions with different centres over an image
\* that is wider than high, and a batch over an image of width 0
C21_Witness ==
    /\ handled # None
    /\ handled[1].frame_info.image_shape = <<1, 2, 3>>
    /\ Len(handled[1].predictions) = 2
    /\ Len(handled[1].payload.detections) = 2
    /\ handled[1].payload.detections[1].x_center.n = 3
    /\ handled[1].payload.detections[2].x_center.n = 1

\* the raw predictions of a batch that have every key, in the batch's order
Complete(preds) == SelectSeq(preds, LAMBDA p : \A f \in Fields : p[f] # None)

\* a batch over an image of positive size in which some item lacks a key
HasIncomplete(h) ==
    /\ h.frame_info.image_shape # None
    /\ h.frame_info.image_shape[1] > 0
    /\ h.frame_info.image_shape[2] > 0
    /\ \E i \in 1..Len(h.predictions) :
          \E f \in Fields : h.predictions[i][f] = None

\* the detection d was made from the raw prediction p
MadeFrom(d, p, shape) ==
    /\ d.class_name = p.class[1]
    /\ d.confidence = p.confidence[1]
    /\ IsQuotient(d.x_center, p.x[1], shape[2])
    /\ IsQuotient(d.y_center, p.y[1], shape[1])
    /\ IsQuotient(d.width, p.width[1], shape[2])
    /\ IsQuotient(d.height, p.height[1], shape[1])

C23_UnusableBatchReported ==
    handled # None =>
        LET shape == handled[1].frame_info.image_shape IN
        (shape = None \/ shape[1] <= 0 \/ shape[2] <= 0) =>
            /\ handled[1].payload.detections = <<>>
            /\ handled[1].payload.error # None

\* the fraction q lies within [0, 1]
InUnitRange(q) == q.d > 0 /\ 0 <= q.n /\ q.n <= q.d

\* C24: every detection of a payload has confidence, x_center, y_center,
\* width and height within [0, 1].
C24_DetectionsWithinUnitRange ==
    handled # None =>
        \A i \in 1..Len(handled[1].payload.detections) :
            LET d == handled[1].payload.detections[i] IN
            /\ 0 <= d.confidence
            /\ d.confidence <= 1
            /\ InUnitRange(d.x_center)
            /\ InUnitRange(d.y_center)
            /\ InUnitRange(d.width)
            /\ InUnitRange(d.height)

----------------------------------------------------------------------------
\* the frame source, continued

\* C25: no id is handed out before the first dequeue; a step changes the
\* frame id counter only by taking the oldest frame from the queue in
\* read_frame()/grab(), and then by exactly one, so the first frame dequeued
\* gets id 1 and each later one a larger id than all before it; a frame put
\* in the holder carries the new counter value; a step that drops a frame on
\* push or purges one in release() leaves the counter alone.
C25_IdsAssignedAtDequeue ==
    /\ frame_id_counter = 0
    /\ [][/\ frame_id_counter' # frame_id_counter =>
                /\ frame_id_counter' = frame_id_counter + 1
                /\ frame_queue # <<>>
                /\ frame_queue' = Tail(frame_queue)
                /\ dropped' = dropped
                /\ cleared_count' = cleared_count
          /\ (last_read_video_frame' # None /\
              last_read_video_frame' # last_read_video_frame) =>
                /\ frame_queue # <<>>
                /\ last_read_video_frame'[1].image = Head(frame_queue)
                /\ last_read_video_frame'[1].frame_id = frame_id_counter + 1
                /\ frame_id_counter' = frame_id_counter + 1
          /\ (dropped' # dropped \/ cleared_count' > cleared_count) =>
                frame_id_counter' = frame_id_counter
         ]_vars

\* after a drop on push and a purge by release() the holder has the second
\* id for a later frame than the second
C25_Witness ==
    /\ dropped > 0
    /\ cleared_count > 0
    /\ frame_id_counter = 2
    /\ last_read_video_frame # None
    /\ last_read_video_frame[1].frame_id = 2
    /\ last_read_video_frame[1].image > 2

\* C30: the frame source is not open before start() and open after it; as
\* long as it was not started read_frame() returns None and leaves the queue
\* and the frame id counter as they are, and grab() returns False and leaves
\* the queue, the holder and the counter as they are; start() on a started
\* source changes nothing.
C30_NotStartedFailsStartIdempotent ==
    /\ ~IsOpened
    /\ [](~running => /\ ReadFrame.vf = None
                      /\ ReadFrame.q = frame_queue
                      /\ ReadFrame.ctr = frame_id_counter)
    /\ [][/\ (~running /\ calls' # calls /\ LastCall'.op = "grab") =>
                /\ ~LastCall'.ok
                /\ UNCHANGED <<frame_queue, last_read_video_frame, frame_id_counter>>
          /\ Start => IsOpened'
          /\ (running /\ Start) => UNCHANGED frameVars
         ]_vars

\* grab() was called on a source that was not started while a frame waited
C30_Witness ==
    /\ ~IsOpened
    /\ frame_queue # <<>>
    /\ calls # <<>>
    /\ LastCall.op = "grab"
    /\ ~LastCall.ok

----------------------------------------------------------------------------
\* the capture timestamp

\* C26: a frame captured at T nanoseconds by either capture callback is
\* relayed with a frame timestamp equal to T, up to the microsecond a
\* datetime resolves, and its payload carries T / 1_000_000 milliseconds,
\* up to 1 ms.
C26_TimestampFidelity ==
    (relayed # None /\ relayed[1].capture # None) =>
        LET T == relayed[1].capture[1] IN
        /\ relayed[1].frame_timestamp * 1000 - T \in -1000..1000
        /\ relayed[1].timestamp - (T \div 1000000) \in -1..1

----------------------------------------------------------------------------
\* the processor's lifecycle

\* C27: a call of start() on a processor that is not running and cannot set
\* the pipeline up (no frame producer, one of the wrong type, the model not
\* loaded and not loadable, GStreamerVideoSource or InferencePipeline
\* failing to be created or started) ends by raising, with is_running false
\* and no started pipeline.
C27_StartFailureRaised ==
    [][Len(start_calls') > Len(start_calls) =>
          LET c == start_calls'[Len(start_calls')]
              cannot == \/ frame_producer # "producer"
                        \/ c.failure \in {"source", "pipeline", "pipeline_start"}
                        \/ (c.failure = "model" /\ ~c.model)
          IN (~c.was_running /\ cannot) =>
                /\ c.outcome = "raised"
                /\ ~processor_is_running'
                /\ inference_pipeline' # "started"
      ]_vars

\* start() raised because InferencePipeline could not be created, after the
\* frame producer had been started
C27_Witness ==
    /\ start_calls # <<>>
    /\ start_calls[Len(start_calls)].failure = "pipeline"
    /\ start_calls[Len(start_calls)].outcome = "raised"
    /\ frame_producer = "producer"
    /\ running
    /\ ~processor_is_running

\* C28: once stop() has completed, and until start() is called again, the
\* frame source's isOpened() is false and every grab() returns False without
\* taking a frame from the queue.
C28_StopClosesSource ==
    /\ [](stopped => ~IsOpened)
    /\ [][(stopped /\ calls' # calls /\ LastCall'.op = "grab") =>
             /\ ~LastCall'.ok
             /\ frame_queue' = frame_queue
         ]_vars

\* C29: once shutdown_event() has completed no keepalive task is alive,
\* whether or not subscribers are still registered.
C29_ShutdownCancelsKeepalive == shutdownPc = "done" => Alive = {}

----------------------------------------------------------------------------
\* the consumer side of the frame source, continued

\* C31: grab() on a started source can always complete, also with an empty
\* queue; on an empty queue it returns False and leaves the source started,
\* the queue and the counter as they were; whatever grab() returned before,
\* a grab() that finds a frame returns True with the oldest queued frame,
\* and the retrieve() after it returns that frame.
C31_IdleGrabTimesOut ==
    /\ [](running => ENABLED Grab)
    /\ [][(running /\ calls' # calls /\ LastCall'.op = "grab") =>
             /\ running'
             /\ IF frame_queue = <<>>
                THEN /\ ~LastCall'.ok
                     /\ UNCHANGED <<frame_queue, frame_id_counter>>
                ELSE /\ LastCall'.ok
                     /\ LastCall'.img = Some(Head(frame_queue))
         ]_vars
    /\ [][(calls # <<>> /\ LastCall.op = "grab" /\ LastCall.ok /\
           calls' # calls /\ LastCall'.op = "retrieve") =>
             /\ LastCall'.ok
             /\ LastCall'.img = LastCall.img
         ]_vars

\* grab() timed out on the started source, the first frame was pushed
\* afterwards, and the next grab() returned it
C31_Witness ==
    /\ running
    /\ pushed = 1
    /\ dropped = 0
    /\ frame_id_counter = 1
    /\ Len(calls) = 2
    /\ calls[1] = [op |-> "grab", ok |-> FALSE, img |-> None]
    /\ calls[2] = [op |-> "grab", ok |-> TRUE, img |-> Some(1)]

\* C32: when on_new_sample_callback is invoked with a full queue, the
\* incoming frame is discarded and the queue is left as it was, the oldest
\* queued frame included.
C32_AppsinkRejectsNewest ==
    [][(pushed' = pushed + 1 /\ QueueFull(frame_queue)) =>
          frame_queue' = frame_queue]_vars

\* C33: a call of start() on a running processor returns at its first test:
\* the event loop captured before stays the captured one, no video source,
\* inference pipeline or keep-alive task is created, and is_running stays
\* True, with the pipeline, the model and the producer as they were.
C33_StartWhileRunningIsNoOp ==
    [][(Len(start_calls') > Len(start_calls) /\ processor_is_running) =>
          /\ start_calls'[Len(start_calls')].outcome = "already_running"
          /\ processor_is_running'
          /\ UNCHANGED <<main_event_loop, created, inference_pipeline, model,
                         running, frame_producer>>
      ]_vars

\* start() succeeded and was called again on the running processor: one
\* source, one pipeline, one keep-alive task
C33_Witness ==
    /\ Len(start_calls) = 2
    /\ start_calls[1].outcome = "started"
    /\ start_calls[2].was_running
    /\ processor_is_running
    /\ main_event_loop = "open"
    /\ created = [video_source |-> 1, inference_pipeline |-> 1, loop_task |-> 1]

\* C34: the first message a subscriber receives is its own
\* connection_status message; no ai_detection and no ping reaches it
\* before.
C34_WelcomeComesFirst ==
    \A c \in Clients :
       inbox[c] # <<>> => inbox[c][1] = WelcomeMessage(c)

\* C35: the frames retrieve() returned are frames that were pushed, no
\* frame is returned twice, and two returned frames come in the order
\* they were pushed (the image of a frame is its push number), with ids
\* in that same order.
C35_PushOrderNoDuplicates ==
    /\ \A i \in 1..Len(retrieved) : retrieved[i][1] \in 1..pushed
    /\ \A i, j \in 1..Len(retrieved) :
          i < j => /\ retrieved[i][1] < retrieved[j][1]
                   /\ retrieved[i][2] < retrieved[j][2]

\* frame 1 was retrieved, release() purged a frame, a later frame was
\* retrieved with id 2
C35_Witness ==
    /\ Len(retrieved) = 2
    /\ retrieved[1] = <<1, 1>>
    /\ retrieved[2][1] > 2
    /\ retrieved[2][2] = 2
    /\ cleared_count > 0

\* C36: no step of release() changes the holder, the frame id counter or
\* the id of the last retrieved frame; a retrieve() that finds a frame in
\* the holder returns it, whether release() ran meanwhile or not, and a
\* frame grab() dequeues is numbered one above the counter.
C36_ReleaseTouchesOnlyQueue ==
    /\ [][relPc' # relPc =>
            UNCHANGED <<last_read_video_frame, frame_id_counter,
                        last_retrieved_frame_id>>]_vars
    /\ [][(Len(retrieved') > Len(retrieved)) =>
            /\ last_read_video_frame # None
            /\ retrieved'[Len(retrieved')] =
                  <<last_read_video_frame[1].image, last_read_video_frame[1].frame_id>>
         ]_vars
    /\ [][(last_read_video_frame' # last_read_video_frame /\ last_read_video_frame' # None) =>
            last_read_video_frame'[1].frame_id = frame_id_counter + 1]_vars

\* frame 1 was grabbed, release() purged the frame behind it and is about
\* to return: the holder still has frame 1 with id 1
C36_Witness ==
    /\ relPc = "exit"
    /\ cleared_count = 1
    /\ frame_id_counter = 1
    /\ last_read_video_frame = Some([image |-> 1, frame_id |-> 1])
    /\ last_retrieved_frame_id = None

\* C37: a release() that has started returns, whatever the capture thread
\* pushes while it runs.
C37_ReleaseTerminates == (relPc # "idle") ~> (relPc = "idle")

\* C38: once a call of stop() on a running processor has ended, by
\* returning or by raising, is_running is False and inference_pipeline is
\* None; the next call of stop() returns at its first test.
C38_StopAlwaysClears ==
    /\ [](last_stop \in {Some("returned"), Some("raised")} =>
             /\ ~processor_is_running
             /\ inference_pipeline = "none")
    /\ [][(last_stop \in {Some("returned"), Some("raised")} /\ stopPc = "idle" /\
           (last_stop' # last_stop \/ stopPc' # stopPc) /\ start_calls' = start_calls) =>
             last_stop' = Some("noop")]_vars

\* C39: when a call of start() raises, the frame producer is not running
\* afterwards and no inference pipeline is attached to the processor.
C39_FailedStartLeavesNothingStarted ==
    [][(Len(start_calls') > Len(start_calls) /\
        start_calls'[Len(start_calls')].outcome = "raised") =>
          /\ ~running'
          /\ inference_pipeline' = "none"
          /\ ~processor_is_running'
      ]_vars

\* the number of items the worker is through with
Processed ==
    Len(items) - Len(input_queue) - (IF worker_pc = "process" THEN 1 ELSE 0)

\* the results of the first k items whose processing does not raise, in
\* the order the items were pushed
RECURSIVE ResultsOf(_)
ResultsOf(k) ==
    IF k = 0 THEN <<>>
    ELSE IF items[k].bad THEN ResultsOf(k - 1)
    ELSE Append(ResultsOf(k - 1), ProcessItem(items[k]).result)

\* C40: the monitor's error count is the number of items whose process_item
\* raised, one error each; the output queue holds the results of the other
\* processed items and nothing else, in the order their inputs were pushed;
\* the worker task does not end, and every item pushed to a started
\* pipeline is eventually processed, also after an item that raised.
C40_WorkerSurvivesItemError ==
    /\ [](processing_stats.error_count =
             Cardinality({i \in 1..Processed : items[i].bad}))
    /\ [](output_queue = ResultsOf(Processed))
    /\ [](worker_pc # "done")
    /\ \A k \in 1..MaxItems :
          (worker_pc # "none" /\ Len(items) >= k) ~> (Processed >= k)

\* item 2 raised and was counted once; items 1 and 3, pushed around it,
\* have their results on the output queue in that order
C40_Witness ==
    /\ Len(items) = 3
    /\ ~items[1].bad /\ items[2].bad /\ ~items[3].bad
    /\ Processed = 3
    /\ processing_stats.error_count = 1
    /\ output_queue = <<[of |-> 1], [of |-> 3]>>
    /\ worker_pc = "get"

====
